---- MODULE Spec2Model ----
(***************************************************************************)
(* Model of the chunking and retrieval core of LessonsHub (lesson14):      *)
(*   - split_strings_from_subsection and its helpers                       *)
(*     (src/lesson14/wiki_data/bak/wiki_parser.py),                        *)
(*   - KnowledgeBase.load / KnowledgeBase.search                           *)
(*     (src/lesson14/chatbot03/knowledge_base.py),                         *)
(*   - clean_text, chunk_text and run_pipeline                             *)
(*     (src/lesson14/wiki_data/wiki_parser.py),                            *)
(*   - the startup of chatbot03 and the modes of its TelegramBot,          *)
(*   - the quiz service and its handlers (lesson13/quiz_bot_serverless,    *)
(*     lesson14/chatbot01).                                                *)
(* A Python str is a sequence of one-character strings.  The marker        *)
(* "<|endoftext|>" stands, as one symbol, for the text of a special token  *)
(* of the encoding.                                                        *)
(***************************************************************************)
EXTENDS Integers, Sequences, FiniteSets, TLC

VARIABLES
    \* ---- split_strings_from_subsection (one top-level call) ----
    titles,         \* subsection[0]: the list of parent headings
    text,           \* subsection[1]: the body of the section
    max_tokens,     \* argument max_tokens of the top-level call
    max_recursion,  \* argument max_recursion of the top-level call
    frames,         \* pending recursive calls, the next one to run first
    results,        \* the strings returned so far, in output order
    maxDepth,       \* deepest nesting of recursive calls seen so far
    pc,             \* "idle" | "run" | "done" | "raised"
    \* ---- one KnowledgeBase instance and its callers ----
    df,                \* self._df: None, or the rows of the loaded CSV
    embedding_matrix,  \* self._embedding_matrix: None, or the normalized rows
    kbLoad,            \* where a running load() is: "idle" | "matrix_set"
    load_df,           \* the local df of the running load()
    ret,               \* the outcome of the call that has just ended
    searches,          \* the search() calls running in worker threads
    \* ---- the other components, one record each ----
    clean,   \* clean_text applied to one text, and to its own result
    chunk,   \* one call of chunk_text
    pipe,    \* one run of run_pipeline (lesson14/wiki_data/wiki_parser.py)
    boot,    \* one run of main() of chatbot03
    parse,   \* one KnowledgeBase.load() over serialized embeddings
    prep,    \* one call of _prepare_question_for_session
    quiz,    \* the quiz service, its database and the running handlers
    bot      \* one TelegramBot and the updates it handles

splitVars == <<titles, text, max_tokens, max_recursion, frames, results, maxDepth, pc>>

kbVars == <<df, embedding_matrix, kbLoad, load_df, ret, searches>>

restVars == <<clean, chunk, pipe, boot, parse, prep, quiz, bot>>

vars == <<splitVars, kbVars, restVars>>

\* a component that takes no part in the specification at hand
Off == [pc |-> "off"]

RestIdle ==
    /\ clean = Off
    /\ chunk = Off
    /\ pipe = Off
    /\ boot = Off
    /\ parse = Off
    /\ prep = Off
    /\ quiz = Off
    /\ bot = Off

(***************************************************************************)
(* Bounds of the model.                                                    *)
(***************************************************************************)
MaxAtoms == 5        \* words and delimiters in a section body
MaxTokensBound == 3  \* largest max_tokens tried
MaxRecBound == 2     \* largest max_recursion tried

Special == "<|endoftext|>"
\* what a section body is made of: a word, a line break (two make a
\* paragraph break), a sentence end, and the text of a special token
Atoms == { <<"a">>, <<"\n">>, <<".", " ">> }
TitleLists == { <<>>, << <<"a">> >>, << <<"a">>, <<"a", "a">> >> }

Min(a, b) == IF a <= b THEN a ELSE b
Abs(a) == IF a < 0 THEN -a ELSE a

RECURSIVE Concat(_)
\* "".join(parts)
Concat(parts) ==
    IF parts = <<>> THEN <<>> ELSE Head(parts) \o Concat(Tail(parts))

RECURSIVE Join(_, _)
\* delimiter.join(parts)
Join(parts, delimiter) ==
    IF parts = <<>> THEN <<>>
    ELSE IF Len(parts) = 1 THEN parts[1]
    ELSE parts[1] \o delimiter \o Join(Tail(parts), delimiter)

\* s[k : k + len(d)] == d   (k is 1-based here)
MatchAt(s, d, k) ==
    /\ k + Len(d) - 1 <= Len(s)
    /\ SubSeq(s, k, k + Len(d) - 1) = d

\* string.find(d), 1-based; 0 when d does not occur in s
Find(s, d) ==
    IF \E k \in 1..Len(s) : MatchAt(s, d, k)
    THEN CHOOSE k \in 1..Len(s) : MatchAt(s, d, k) /\ \A j \in 1..(k - 1) : ~MatchAt(s, d, j)
    ELSE 0

RECURSIVE StrSplit(_, _)
\* string.split(delimiter): leftmost, non-overlapping occurrences
StrSplit(s, d) ==
    IF Find(s, d) = 0 THEN <<s>>
    ELSE <<SubSeq(s, 1, Find(s, d) - 1)>> \o StrSplit(SubSeq(s, Find(s, d) + Len(d), Len(s)), d)

IsPrefix(p, s) == Len(p) <= Len(s) /\ SubSeq(s, 1, Len(p)) = p

(***************************************************************************)
(* tiktoken: a byte-pair encoding.  encode() starts from single symbols    *)
(* and repeatedly merges the adjacent pair of lowest rank (leftmost on     *)
(* ties) until no pair of the merge table is left; decode() concatenates.  *)
(* encode() with its default disallowed_special="all" raises ValueError on *)
(* text that contains the text of a special token.                         *)
(***************************************************************************)
Merges == << << <<"\n">>, <<"\n">> >>,
             << <<" ">>, <<"a">> >>,
             << <<".">>, <<" ">> >>,
             << <<"a">>, <<"a">> >> >>

\* the first position (1-based) where tokens l, r are adjacent; 0 if nowhere
PairAt(parts, l, r) ==
    IF \E i \in 1..(Len(parts) - 1) : parts[i] = l /\ parts[i + 1] = r
    THEN CHOOSE i \in 1..(Len(parts) - 1) :
            /\ parts[i] = l /\ parts[i + 1] = r
            /\ \A j \in 1..(i - 1) : ~(parts[j] = l /\ parts[j + 1] = r)
    ELSE 0

\* the rank of the lowest-ranked merge that applies to parts; 0 if none does
BestRank(parts) ==
    IF \E k \in 1..Len(Merges) : PairAt(parts, Merges[k][1], Merges[k][2]) # 0
    THEN CHOOSE k \in 1..Len(Merges) :
            /\ PairAt(parts, Merges[k][1], Merges[k][2]) # 0
            /\ \A j \in 1..(k - 1) : PairAt(parts, Merges[j][1], Merges[j][2]) = 0
    ELSE 0

\* parts with the pair at position i merged into one token
MergeAt(parts, i) ==
    SubSeq(parts, 1, i - 1) \o << parts[i] \o parts[i + 1] >> \o SubSeq(parts, i + 2, Len(parts))

RECURSIVE BytePairMerge(_, _)
\* merge the leftmost pair of the lowest rank that applies, until none applies
BytePairMerge(parts, rank) ==
    IF rank = 0 THEN parts
    ELSE BytePairMerge(
            MergeAt(parts, PairAt(parts, Merges[rank][1], Merges[rank][2])),
            BestRank(MergeAt(parts, PairAt(parts, Merges[rank][1], Merges[rank][2]))))

\* the text holds the text of a special token: encoding.encode raises
HasSpecial(string) == \E k \in 1..Len(string) : string[k] = Special

\* the single symbols encode() starts from
Symbols(string) == [k \in 1..Len(string) |-> <<string[k]>>]

\* encoding.encode(string), for a string without special-token text
Encode(string) == BytePairMerge(Symbols(string), BestRank(Symbols(string)))

\* encoding.decode(tokens)
Decode(tokens) == Concat(tokens)

num_tokens(string) == Len(Encode(string))

\* line 206 without abs: diff = halfway - left_tokens
halved_diff_signed(chunks, delimiter, halfway, i) ==
    halfway - num_tokens(Join(SubSeq(chunks, 1, i + 1), delimiter))

\* diff = abs(halfway - left_tokens) for left = delimiter.join(chunks[: i + 1])
halved_diff(chunks, delimiter, halfway, i) ==
    Abs(halfway - num_tokens(Join(SubSeq(chunks, 1, i + 1), delimiter)))

RECURSIVE halved_loop(_, _, _, _, _)
\* the for loop of halved_by_delimiter, entered at index i (0-based) with
\* best_diff; the value is i as the loop leaves it (at the break, or the last
\* index when the loop runs to its end)
halved_loop(chunks, delimiter, halfway, i, best_diff) ==
    IF halved_diff(chunks, delimiter, halfway, i) >= best_diff THEN i
    ELSE IF i + 1 = Len(chunks) THEN i
    ELSE halved_loop(chunks, delimiter, halfway, i + 1,
                     halved_diff(chunks, delimiter, halfway, i))

\* halved_by_delimiter with line 212 one piece late:
\* right = delimiter.join(chunks[i + 1:])
halved_by_delimiter_dropping(string, delimiter) ==
    LET chunks == StrSplit(string, delimiter) IN
    IF Len(chunks) = 1 THEN <<string, <<>> >>
    ELSE IF Len(chunks) = 2 THEN chunks
    ELSE LET total_tokens == num_tokens(string)
             halfway == total_tokens \div 2
             i == halved_loop(chunks, delimiter, halfway, 0, halfway)
         IN << Join(SubSeq(chunks, 1, i), delimiter),
               Join(SubSeq(chunks, i + 2, Len(chunks)), delimiter) >>

\* halved_by_delimiter(string, delimiter) -> <<left, right>>
halved_by_delimiter(string, delimiter) ==
    LET chunks == StrSplit(string, delimiter) IN
    IF Len(chunks) = 1 THEN <<string, <<>> >>
    ELSE IF Len(chunks) = 2 THEN chunks
    ELSE LET total_tokens == num_tokens(string)
             halfway == total_tokens \div 2
             i == halved_loop(chunks, delimiter, halfway, 0, halfway)
         IN << Join(SubSeq(chunks, 1, i), delimiter),
               Join(SubSeq(chunks, i + 1, Len(chunks)), delimiter) >>

\* truncated_string cutting one token late: encoded_string[: max_tokens + 1]
truncated_string_late(string, maxTok) ==
    Decode(SubSeq(Encode(string), 1, Min(maxTok + 1, Len(Encode(string)))))

\* truncated_string(string, model, max_tokens): the first max_tokens tokens
truncated_string(string, maxTok) ==
    LET encoded_string == Encode(string) IN
    Decode(SubSeq(encoded_string, 1, Min(maxTok, Len(encoded_string))))

\* the delimiters tried by split_strings_from_subsection, in order
Delimiters == << <<"\n", "\n">>, <<"\n">>, <<".", " ">> >>

\* the string built without the titles: "\n\n".join([text])
Candidate_no_titles(ts, body) == body

\* the string built with the text in front: "\n\n".join([text] + titles)
Candidate_text_first(ts, body) == Join(<<body>> \o ts, <<"\n", "\n">>)

\* string = "\n\n".join(titles + [text])
Candidate(ts, body) == Join(ts \o <<body>>, <<"\n", "\n">>)

\* the labels of a section joined by the blank-line separator
Labels(ts) == Join(ts, <<"\n", "\n">>)

\* line 259 testing the left half only: left == ""
EmptyHalf_left_only(body, d) == halved_by_delimiter(body, Delimiters[d])[1] = <<>>

\* line 259: left == "" or right == "" for the halves by Delimiters[d]
EmptyHalf(body, d) ==
    \/ halved_by_delimiter(body, Delimiters[d])[1] = <<>>
    \/ halved_by_delimiter(body, Delimiters[d])[2] = <<>>

RECURSIVE FirstDelimiterFrom(_, _)
\* the for loop of lines 257-261 from delimiter d on: the index of the first
\* delimiter whose halves are both non-empty, 0 if the loop runs out
FirstDelimiterFrom(body, d) ==
    IF d > Len(Delimiters) THEN 0
    ELSE IF EmptyHalf(body, d) THEN FirstDelimiterFrom(body, d + 1)
    ELSE d

\* the loop of line 257 over the delimiters in reverse: the last delimiter
\* of the list whose halves are both non-empty, 0 if there is none
FirstDelimiter_reversed(body) ==
    IF \A d \in 1..Len(Delimiters) : EmptyHalf(body, d) THEN 0
    ELSE CHOOSE d \in 1..Len(Delimiters) :
            /\ ~EmptyHalf(body, d)
            /\ \A e \in (d + 1)..Len(Delimiters) : EmptyHalf(body, e)

FirstDelimiter(body) == FirstDelimiterFrom(body, 1)

(***************************************************************************)
(* split_strings_from_subsection.  The recursion is run as the call stack  *)
(* runs it: frames holds the calls still to make, the left half before the *)
(* right half, so results grows in the order of the returned list.  Each   *)
(* action is one branch of the function body for the call on top.          *)
(***************************************************************************)
\* all sequences over S of length at most n
SeqsUpTo(S, n) == UNION { [1..k -> S] : k \in 0..n }

\* the section bodies tried: every text of at most MaxAtoms words and
\* delimiters, and short texts that hold the text of a special token
Bodies ==
    { Concat(q) : q \in SeqsUpTo(Atoms, MaxAtoms) }
        \cup { <<Special>>, <<"a", Special>>, <<Special, "\n", "a">> }

\* Optional[...]: None, or a value
None == <<>>
Some(v) == <<v>>

NoCall == [op |-> "none", kind |-> "", error |-> "", query |-> <<>>, top_n |-> 0,
           qv |-> <<>>, fragments |-> <<>>, scores |-> <<>>, indices |-> <<>>,
           before |-> <<>>, batch |-> <<>>]

\* the worker threads asyncio.to_thread runs search() in
Threads == {"t1", "t2"}

\* a worker thread with no search() to run
NoSearch == [pc |-> "idle", kind |-> "", error |-> "", query |-> <<>>, top_n |-> 0,
             qv |-> <<>>, similarities |-> <<>>, top_indices |-> <<>>,
             fragments |-> <<>>, scores |-> <<>>]

\* a KnowledgeBase as constructed: _df = None, _embedding_matrix = None
KbConstructed ==
    /\ df = None
    /\ embedding_matrix = None
    /\ kbLoad = "idle"
    /\ load_df = <<>>
    /\ ret = NoCall
    /\ searches = [t \in Threads |-> NoSearch]

Frame(body, rec, depth) == [text |-> body, rec |-> rec, depth |-> depth]

\* the size of the body and the budget of the scenario "a body of 50 tokens
\* split with max_tokens = 10", and the default of max_recursion (line 239)
ScenarioBodyTokens == 50
ScenarioMaxTokens == 10
DefaultMaxRecursion == 5

\* the sequence x, y, x, y, ... of length n
Alternating(n, x, y) == [i \in 1..n |-> IF i % 2 = 1 THEN x ELSE y]

\* two bodies of ScenarioBodyTokens tokens: lines of one word each, and
\* words separated by single spaces with no delimiter among them
ScenarioLines == Alternating(ScenarioBodyTokens, "a", "\n")
ScenarioWords == Alternating(2 * ScenarioBodyTokens - 1, "a", " ")
ScenarioBodies == {ScenarioLines, ScenarioWords}

SplitInit ==
    /\ titles \in TitleLists
    /\ \/ /\ text \in Bodies
          /\ max_tokens \in 1..MaxTokensBound
          /\ max_recursion \in 0..MaxRecBound
       \/ /\ text \in ScenarioBodies
          /\ max_tokens = ScenarioMaxTokens
          /\ max_recursion = DefaultMaxRecursion
    /\ frames = << Frame(text, max_recursion, 0) >>
    /\ results = <<>>
    /\ maxDepth = 0
    /\ pc = "run"
    /\ KbConstructed
    /\ RestIdle

Top == Head(frames)
TopString == Candidate(titles, Top.text)

\* the call returns: its frame is popped, and the top-level call is over
\* when no call is pending
Return(emitted) ==
    /\ results' = results \o emitted
    /\ frames' = Tail(frames)
    /\ pc' = IF Tail(frames) = <<>> THEN "done" ELSE "run"
    /\ UNCHANGED <<titles, text, max_tokens, max_recursion, maxDepth>>
    /\ UNCHANGED <<kbVars, restVars>>

Fits(string, maxTok) == num_tokens(string) <= maxTok

\* line 247: num_tokens(string) raises on special-token text
SplitRaise ==
    /\ pc = "run"
    /\ HasSpecial(TopString)
    /\ pc' = "raised"
    /\ UNCHANGED <<titles, text, max_tokens, max_recursion, frames, results, maxDepth>>
    /\ UNCHANGED <<kbVars, restVars>>

\* lines 249-250: the string fits, return [string]
SplitFits ==
    /\ pc = "run"
    /\ ~HasSpecial(TopString)
    /\ Fits(TopString, max_tokens)
    /\ Return(<< [string |-> TopString, truncated |-> FALSE, candidate |-> TopString] >>)

\* lines 252-253: recursion used up, return [truncated_string(string)]
SplitTruncateAtZero ==
    /\ pc = "run"
    /\ ~HasSpecial(TopString)
    /\ ~Fits(TopString, max_tokens)
    /\ Top.rec = 0
    /\ Return(<< [string |-> truncated_string(TopString, max_tokens),
                  truncated |-> TRUE, candidate |-> TopString] >>)

\* lines 255-274: halve the text by the first delimiter that gives two
\* non-empty halves and recurse on each half with max_recursion - 1
SplitBisect ==
    /\ pc = "run"
    /\ ~HasSpecial(TopString)
    /\ ~Fits(TopString, max_tokens)
    /\ Top.rec # 0
    /\ FirstDelimiter(Top.text) # 0
    /\ LET h == halved_by_delimiter(Top.text, Delimiters[FirstDelimiter(Top.text)])
       IN frames' = << Frame(h[1], Top.rec - 1, Top.depth + 1),
                       Frame(h[2], Top.rec - 1, Top.depth + 1) >> \o Tail(frames)
    /\ maxDepth' = IF Top.depth + 1 > maxDepth THEN Top.depth + 1 ELSE maxDepth
    /\ UNCHANGED <<titles, text, max_tokens, max_recursion, results, pc>>
    /\ UNCHANGED <<kbVars, restVars>>

\* line 276: no delimiter halves the text, return [truncated_string(string)]
SplitTruncateNoDelimiter ==
    /\ pc = "run"
    /\ ~HasSpecial(TopString)
    /\ ~Fits(TopString, max_tokens)
    /\ Top.rec # 0
    /\ FirstDelimiter(Top.text) = 0
    /\ Return(<< [string |-> truncated_string(TopString, max_tokens),
                  truncated |-> TRUE, candidate |-> TopString] >>)

SplitNext ==
    \/ SplitRaise
    \/ SplitFits
    \/ SplitTruncateAtZero
    \/ SplitBisect
    \/ SplitTruncateNoDelimiter

SpecSplit == SplitInit /\ [][SplitNext]_vars

(***************************************************************************)
(* Properties of split_strings_from_subsection (SpecSplit).                *)
(***************************************************************************)
Result(k) == results[k]

\* the longest prefix of string that measures at most maxTok tokens
LargestFittingPrefix(string, maxTok) ==
    SubSeq(string, 1,
           CHOOSE n \in 0..Len(string) :
               /\ num_tokens(SubSeq(string, 1, n)) <= maxTok
               /\ \A m \in (n + 1)..Len(string) : num_tokens(SubSeq(string, 1, m)) > maxTok)

\* C1: every returned fragment measures at most max_tokens tokens, or it was
\* produced by the truncation fallback and is the largest prefix of its
\* candidate string that measures at most max_tokens tokens.
C1_FragmentWithinBudget ==
    \A k \in 1..Len(results) :
        \/ num_tokens(Result(k).string) <= max_tokens
        \/ /\ Result(k).truncated
           /\ Result(k).string = LargestFittingPrefix(Result(k).candidate, max_tokens)

\* a finished split that returned a fragment that fitted and a truncated one
C1_Witness ==
    /\ pc = "done"
    /\ \E k \in 1..Len(results) : ~Result(k).truncated
    /\ \E k \in 1..Len(results) :
          Result(k).truncated /\ num_tokens(Result(k).candidate) > max_tokens

\* the second half of C1 on its own: a truncated fragment is the largest
\* fitting prefix.  The byte-pair encoding does not make it so: a longer
\* prefix can merge into fewer tokens (". " is one token, ". a" is "." + " a").
TruncationIsLargestPrefix ==
    \A k \in 1..Len(results) :
        Result(k).truncated =>
            Result(k).string = LargestFittingPrefix(Result(k).candidate, max_tokens)

C8_NeverRaisesDepthBounded ==
    /\ pc # "raised"
    /\ maxDepth <= max_recursion
    /\ (pc = "run" => frames # <<>>)

\* what holds of C8: the nesting bound, and progress up to the return or the
\* raise
SplitDepthBounded ==
    /\ maxDepth <= max_recursion
    /\ \A k \in 1..Len(frames) : frames[k].depth <= max_recursion /\ frames[k].rec >= 0
    /\ (pc = "run" => frames # <<>>)

\* the recursion used to its ceiling
SplitDepthReached == ~(pc = "done" /\ maxDepth = max_recursion /\ maxDepth = MaxRecBound)

(***************************************************************************)
(* KnowledgeBase (knowledge_base.py).  A row of the CSV is its text and    *)
(* its parsed embedding.  A row of the normalized matrix is kept exactly,  *)
(* as the vector num over the square root of den2, and a similarity as the *)
(* number num over the square root of den2: floating-point rounding is not *)
(* modelled.                                                               *)
(***************************************************************************)
MaxBatch == 2   \* rows in a CSV
MaxTopN == 4    \* largest top_n tried

\* rows of the CSV, with the columns load() and search() read
RowX ==
    [page_title |-> "P", section |-> "S", chunk_id |-> "0", text |-> "x", embedding |-> <<1, 0, 0>>]
RowY ==
    [page_title |-> "P", section |-> "S", chunk_id |-> "0", text |-> "y", embedding |-> <<0, 1, 0>>]
RowXY ==
    [page_title |-> "P", section |-> "S", chunk_id |-> "0", text |-> "xy", embedding |-> <<1, 1, 0>>]
RowZero ==
    [page_title |-> "P", section |-> "S", chunk_id |-> "0", text |-> "zero", embedding |-> <<0, 0, 0>>]
RowShort ==
    [page_title |-> "P", section |-> "S", chunk_id |-> "0", text |-> "short", embedding |-> <<1, 0>>]
Rows == {RowX, RowY, RowXY, RowZero, RowShort}

\* the CSV contents read_csv can return: every batch of at most MaxBatch
\* rows, and the batch [1,0,0], [0,1,0], [1,1,0]
Batches == SeqsUpTo(Rows, MaxBatch) \cup { <<RowX, RowY, RowXY>> }

\* the vectors get_embedding can return for a query
QueryVectors == { <<2, 0, 0>>, <<0, 0, 0>>, <<1, 1, 0>>, <<-1, 1, 0>>, <<-1, -1, 0>> }

\* the query strings tried
Queries == { <<" ">>, <<" ", "q">> }

RECURSIVE Dot(_, _)
Dot(u, v) ==
    IF u = <<>> THEN 0 ELSE Head(u) * Head(v) + Dot(Tail(u), Tail(v))

\* np.linalg.norm(v) ** 2
NormSq(v) == Dot(v, v)

\* np.vstack(rows) succeeds: at least one row, all of one length
Stackable(batch) ==
    /\ batch # <<>>
    /\ \A i, j \in 1..Len(batch) : Len(batch[i].embedding) = Len(batch[j].embedding)

\* lines 39-41: the row divided by its norm; a zero norm is replaced by 1e-9,
\* and the zero row divided by it is the zero row (den2 = 1 stands for it)
NormalizeRow(v) == [num |-> v, den2 |-> IF NormSq(v) = 0 THEN 1 ELSE NormSq(v)]

NormalizedMatrix(batch) == [i \in 1..Len(batch) |-> NormalizeRow(batch[i].embedding)]

RECURSIVE Strip(_)
\* query.strip()
Strip(q) ==
    IF q = <<>> THEN q
    ELSE IF Head(q) = " " THEN Strip(Tail(q))
    ELSE IF q[Len(q)] = " " THEN Strip(SubSeq(q, 1, Len(q) - 1))
    ELSE q

\* line 48: not query.strip()
Blank(q) == Strip(q) = <<>>

\* lines 67-70: the fragment text built from a row of the table (" - " stands
\* for the dash of the f-string)
Fragment(row) ==
    <<row.page_title, " - ", row.section, " (chunk ", row.chunk_id, "):\n", row.text>>

\* the check of line 50 without its first half
NotLoaded_matrix_only(d, m) == m = None

\* line 50: self._df is None or self._embedding_matrix is None
NotLoaded(d, m) == d = None \/ m = None

\* line 59: one entry of self._embedding_matrix @ normalized_query
Similarity(row, qv) == [num |-> Dot(row.num, qv), den2 |-> row.den2 * NormSq(qv)]

Similarities(matrix, qv) == [i \in 1..Len(matrix) |-> Similarity(matrix[i], qv)]

\* a < b for similarities a, b (den2 > 0)
SimLess(a, b) ==
    IF a.num >= 0
    THEN b.num >= 0 /\ a.num * a.num * b.den2 < b.num * b.num * a.den2
    ELSE b.num >= 0 \/ a.num * a.num * b.den2 > b.num * b.num * a.den2

SimEq(a, b) == ~SimLess(a, b) /\ ~SimLess(b, a)

\* an argsort in descending order, as np.argsort(-similarities) gives
Argsorts_descending(sims) ==
    { p \in [1..Len(sims) -> 1..Len(sims)] :
        /\ \A i, j \in 1..Len(sims) : i # j => p[i] # p[j]
        /\ \A i, j \in 1..Len(sims) : i < j => ~SimLess(sims[p[i]], sims[p[j]]) }

\* np.argsort(similarities): an ascending order of the indices.  The default
\* kind (quicksort) is not stable, so equal similarities come in any order.
Argsorts(sims) ==
    { p \in [1..Len(sims) -> 1..Len(sims)] :
        /\ \A i, j \in 1..Len(sims) : i # j => p[i] # p[j]
        /\ \A i, j \in 1..Len(sims) : i < j => ~SimLess(sims[p[j]], sims[p[i]]) }

\* seq[start:] of Python, start possibly negative
PySliceFrom(seq, start) ==
    IF start < 0
    THEN SubSeq(seq, (IF Len(seq) + start > 0 THEN Len(seq) + start ELSE 0) + 1, Len(seq))
    ELSE SubSeq(seq, Min(start, Len(seq)) + 1, Len(seq))

\* seq[::-1]
Reverse(seq) == [i \in 1..Len(seq) |-> seq[Len(seq) + 1 - i]]

\* line 60: top_n = min(top_n, len(similarities))
ClampTopN(top_n, n) == Min(top_n, n)

\* line 61 without the reversal: np.argsort(similarities)[-top_n:]
TopIndices_no_reverse(order, top_n) == PySliceFrom(order, 0 - top_n)

\* line 61 slicing from the front: np.argsort(similarities)[:top_n][::-1]
TopIndices_lowest(order, top_n) == Reverse(SubSeq(order, 1, top_n))

\* line 61: np.argsort(similarities)[-top_n:][::-1], order being the argsort
TopIndices(order, top_n) == Reverse(PySliceFrom(order, 0 - top_n))

\* lines 65-72: row = self._df.iloc[int(idx)] is in range for every index
RowsInRange(d, indices) == \A k \in 1..Len(indices) : indices[k] <= Len(d)

\* self._df assigned where the embeddings are parsed (line 37), before the
\* stacking of line 38 raises
AfterFailedLoad_partial(d, m, batch) == <<Some(batch), m>>

\* self._df and self._embedding_matrix after a load() that raised: the raise
\* of line 38 comes before the assignments of lines 41-42
AfterFailedLoad(d, m, batch) == <<d, m>>

KbInit ==
    /\ KbConstructed
    /\ RestIdle
    /\ titles = <<>>
    /\ text = <<>>
    /\ max_tokens = 1
    /\ max_recursion = 0
    /\ frames = <<>>
    /\ results = <<>>
    /\ maxDepth = 0
    /\ pc = "idle"

\* the outcome of a load(): before are the two fields as the call (for a
\* load that returned: as its last assignment) found them, batch the rows
\* read_csv returned
LoadOutcome(kind, error, before, batch) ==
    [NoCall EXCEPT !.op = "load", !.kind = kind, !.error = error, !.before = before,
                   !.batch = batch]

SearchOutcome(kind, error, query, top_n, qv, indices, fragments, scores) ==
    [NoCall EXCEPT !.op = "search", !.kind = kind, !.error = error, !.query = query,
                   !.top_n = top_n, !.qv = qv, !.indices = indices,
                   !.fragments = fragments, !.scores = scores]

\* load(), lines 33-38, on a CSV whose rows np.vstack rejects: ValueError
LoadRaise ==
    /\ ret.op = "none"
    /\ kbLoad = "idle"
    /\ \E batch \in Batches :
          /\ ~Stackable(batch)
          /\ df' = AfterFailedLoad(df, embedding_matrix, batch)[1]
          /\ embedding_matrix' = AfterFailedLoad(df, embedding_matrix, batch)[2]
          /\ ret' = LoadOutcome("raised", "ValueError", <<df, embedding_matrix>>, batch)
    /\ UNCHANGED <<kbLoad, load_df>>
    /\ UNCHANGED <<splitVars, searches, restVars>>

\* load(), lines 33-41: the CSV is read, its embeddings stacked and divided
\* by their norms (all local), and self._embedding_matrix is assigned
LoadSetMatrix ==
    /\ ret.op = "none"
    /\ kbLoad = "idle"
    /\ \E batch \in Batches :
          /\ Stackable(batch)
          /\ load_df' = batch
          /\ embedding_matrix' = Some(NormalizedMatrix(batch))
    /\ kbLoad' = "matrix_set"
    /\ UNCHANGED <<df, ret>>
    /\ UNCHANGED <<splitVars, searches, restVars>>

\* load() returning without the assignment of line 42
LoadSetDf_forgotten ==
    /\ ret.op = "none"
    /\ kbLoad = "matrix_set"
    /\ kbLoad' = "idle"
    /\ load_df' = <<>>
    /\ ret' = LoadOutcome("ok", "", <<df, embedding_matrix>>, load_df)
    /\ UNCHANGED <<df, embedding_matrix>>
    /\ UNCHANGED <<splitVars, searches, restVars>>

\* line 42 appending the rows to the table it finds: pd.concat([self._df, df])
LoadSetDf_append ==
    /\ ret.op = "none"
    /\ kbLoad = "matrix_set"
    /\ df' = IF df = None THEN Some(load_df) ELSE Some(df[1] \o load_df)
    /\ kbLoad' = "idle"
    /\ load_df' = <<>>
    /\ ret' = LoadOutcome("ok", "", <<df, embedding_matrix>>, load_df)
    /\ UNCHANGED embedding_matrix
    /\ UNCHANGED <<splitVars, searches, restVars>>

\* load(), lines 42-43: self._df = df, and load() returns
LoadSetDf ==
    /\ ret.op = "none"
    /\ kbLoad = "matrix_set"
    /\ df' = Some(load_df)
    /\ kbLoad' = "idle"
    /\ load_df' = <<>>
    /\ ret' = LoadOutcome("ok", "", <<df, embedding_matrix>>, load_df)
    /\ UNCHANGED embedding_matrix
    /\ UNCHANGED <<splitVars, searches, restVars>>

SearchFrame == UNCHANGED <<df, embedding_matrix, kbLoad, load_df>> /\ UNCHANGED <<splitVars, searches, restVars>>

\* search(), lines 48-49: a blank query returns [], []
SearchBlank ==
    /\ ret.op = "none"
    /\ \E query \in Queries, top_n \in 0..MaxTopN :
          /\ Blank(query)
          /\ ret' = SearchOutcome("returned", "", query, top_n, <<>>, <<>>, <<>>, <<>>)
    /\ SearchFrame

\* search(), lines 50-51: RuntimeError before load
SearchNotLoaded ==
    /\ ret.op = "none"
    /\ NotLoaded(df, embedding_matrix)
    /\ \E query \in Queries, top_n \in 0..MaxTopN :
          /\ ~Blank(query)
          /\ ret' = SearchOutcome("raised", "RuntimeError", query, top_n, <<>>, <<>>, <<>>, <<>>)
    /\ SearchFrame

\* search() without the check of lines 55-56: the zero vector is ranked like
\* any other
SearchZeroNorm_ranked ==
    /\ ret.op = "none"
    /\ ~NotLoaded(df, embedding_matrix)
    /\ \E query \in Queries, top_n \in 0..MaxTopN, qv \in QueryVectors :
          /\ ~Blank(query)
          /\ NormSq(qv) = 0
          /\ \E order \in Argsorts(Similarities(embedding_matrix[1], qv)) :
                LET top_indices == TopIndices(order, ClampTopN(top_n, Len(order)))
                IN  ret' = SearchOutcome("returned", "", query, top_n, qv, top_indices,
                               [k \in 1..Len(top_indices) |-> <<>>],
                               [k \in 1..Len(top_indices) |-> [num |-> 0, den2 |-> 0]])
    /\ SearchFrame

\* search(), lines 53-56: a query vector of norm zero returns [], []
SearchZeroNorm ==
    /\ ret.op = "none"
    /\ ~NotLoaded(df, embedding_matrix)
    /\ \E query \in Queries, top_n \in 0..MaxTopN, qv \in QueryVectors :
          /\ ~Blank(query)
          /\ NormSq(qv) = 0
          /\ ret' = SearchOutcome("returned", "", query, top_n, qv, <<>>, <<>>, <<>>)
    /\ SearchFrame

\* search(), line 59: the matrix product raises ValueError when the query
\* vector has another length than the rows of the matrix
SearchShapeError ==
    /\ ret.op = "none"
    /\ ~NotLoaded(df, embedding_matrix)
    /\ \E query \in Queries, top_n \in 0..MaxTopN, qv \in QueryVectors :
          /\ ~Blank(query)
          /\ NormSq(qv) # 0
          /\ Len(embedding_matrix[1][1].num) # Len(qv)
          /\ ret' = SearchOutcome("raised", "ValueError", query, top_n, qv, <<>>, <<>>, <<>>)
    /\ SearchFrame

\* search(), lines 58-73: rank the rows and return the fragments and scores;
\* self._df.iloc raises IndexError on an index the table does not have (and
\* AttributeError if self._df were None, which line 50 rules out)
SearchRank ==
    /\ ret.op = "none"
    /\ ~NotLoaded(df, embedding_matrix)
    /\ \E query \in Queries, top_n \in 0..MaxTopN, qv \in QueryVectors :
          /\ ~Blank(query)
          /\ NormSq(qv) # 0
          /\ Len(embedding_matrix[1][1].num) = Len(qv)
          /\ \E order \in Argsorts(Similarities(embedding_matrix[1], qv)) :
                LET similarities == Similarities(embedding_matrix[1], qv)
                    top_indices == TopIndices(order, ClampTopN(top_n, Len(similarities)))
                IN  ret' = IF df = None
                           THEN SearchOutcome("raised", "AttributeError", query, top_n, qv,
                                    <<>>, <<>>, <<>>)
                           ELSE IF RowsInRange(df[1], top_indices)
                           THEN SearchOutcome("returned", "", query, top_n, qv, top_indices,
                                    [k \in 1..Len(top_indices) |-> Fragment(df[1][top_indices[k]])],
                                    [k \in 1..Len(top_indices) |-> similarities[top_indices[k]]])
                           ELSE SearchOutcome("raised", "IndexError", query, top_n, qv,
                                    <<>>, <<>>, <<>>)
    /\ SearchFrame

\* the caller goes on with the outcome of its call
TakeOutcome ==
    /\ ret.op # "none"
    /\ ret' = NoCall
    /\ UNCHANGED <<df, embedding_matrix, kbLoad, load_df>>
    /\ UNCHANGED <<splitVars, searches, restVars>>

KbNext ==
    \/ LoadRaise
    \/ LoadSetMatrix
    \/ LoadSetDf
    \/ SearchBlank
    \/ SearchNotLoaded
    \/ SearchZeroNorm
    \/ SearchShapeError
    \/ SearchRank
    \/ TakeOutcome

SpecKB == KbInit /\ [][KbNext]_vars

(***************************************************************************)
(* Searches running side by side.  telegram_bot.py runs AskService.answer, *)
(* and with it KnowledgeBase.search, in worker threads                     *)
(* (asyncio.to_thread), so searches of one instance interleave at the      *)
(* places where they read self._df and self._embedding_matrix: the check   *)
(* of line 50, the matrix product of line 59, and every self._df.iloc of   *)
(* line 66.  The instance is one whose load() has returned.                *)
(***************************************************************************)
\* the batches held by the instance the threads search
SearchedBatches == { <<RowX, RowY, RowXY>>, <<RowX, RowX>>, <<RowShort>> }

SearchesInit ==
    /\ \E batch \in SearchedBatches :
          /\ df = Some(batch)
          /\ embedding_matrix = Some(NormalizedMatrix(batch))
          /\ ret = LoadOutcome("ok", "", <<None, Some(NormalizedMatrix(batch))>>, batch)
    /\ kbLoad = "idle"
    /\ load_df = <<>>
    /\ searches = [t \in Threads |-> NoSearch]
    /\ titles = <<>>
    /\ text = <<>>
    /\ max_tokens = 1
    /\ max_recursion = 0
    /\ frames = <<>>
    /\ results = <<>>
    /\ maxDepth = 0
    /\ pc = "idle"
    /\ RestIdle

\* a search() that is over
SearchOver(s, kind, error) == [s EXCEPT !.pc = "done", !.kind = kind, !.error = error]

\* search(), lines 48-51, in thread t: the blank check and the loaded check
SearchCheck(t) ==
    /\ searches[t].pc = "idle"
    /\ \E query \in Queries, top_n \in 0..MaxTopN :
          LET s == [NoSearch EXCEPT !.query = query, !.top_n = top_n]
          IN  searches' = [searches EXCEPT ![t] =
                  IF Blank(query) THEN SearchOver(s, "returned", "")
                  ELSE IF NotLoaded(df, embedding_matrix) THEN SearchOver(s, "raised", "RuntimeError")
                  ELSE [s EXCEPT !.pc = "embed"]]
    /\ UNCHANGED <<df, embedding_matrix, kbLoad, load_df, ret>>
    /\ UNCHANGED <<splitVars, restVars>>

\* lines 53-61 with the matrix sorted in place:
\* self._embedding_matrix = self._embedding_matrix[order]
SearchSimilarities_sorting(t) ==
    /\ searches[t].pc = "embed"
    /\ \E qv \in QueryVectors :
          /\ NormSq(qv) # 0
          /\ Len(embedding_matrix[1][1].num) = Len(qv)
          /\ \E order \in Argsorts(Similarities(embedding_matrix[1], qv)) :
                /\ embedding_matrix' = Some([i \in 1..Len(order) |-> embedding_matrix[1][order[i]]])
                /\ searches' = [searches EXCEPT ![t] =
                        [@ EXCEPT !.pc = "collect", !.qv = qv,
                                  !.similarities = Similarities(embedding_matrix[1], qv),
                                  !.top_indices = TopIndices(order, ClampTopN(searches[t].top_n, Len(order)))]]
    /\ UNCHANGED <<df, kbLoad, load_df, ret>>
    /\ UNCHANGED <<splitVars, restVars>>

\* search(), lines 53-61, in thread t: the embedding of the query, the norm
\* check, the similarities read from self._embedding_matrix, and the indices
\* of the top rows
SearchSimilarities(t) ==
    /\ searches[t].pc = "embed"
    /\ \E qv \in QueryVectors :
          IF NormSq(qv) = 0
          THEN searches' = [searches EXCEPT ![t] = SearchOver([@ EXCEPT !.qv = qv], "returned", "")]
          ELSE IF Len(embedding_matrix[1][1].num) # Len(qv)
          THEN searches' = [searches EXCEPT ![t] = SearchOver([@ EXCEPT !.qv = qv], "raised", "ValueError")]
          ELSE \E order \in Argsorts(Similarities(embedding_matrix[1], qv)) :
                  searches' = [searches EXCEPT ![t] =
                      [@ EXCEPT !.pc = "collect", !.qv = qv,
                                !.similarities = Similarities(embedding_matrix[1], qv),
                                !.top_indices = TopIndices(order, ClampTopN(searches[t].top_n, Len(order)))]]
    /\ UNCHANGED <<df, embedding_matrix, kbLoad, load_df, ret>>
    /\ UNCHANGED <<splitVars, restVars>>

\* search(), lines 65-73, in thread t: one turn of the loop, reading the row
\* from self._df; after the last turn search() returns
SearchCollect(t) ==
    /\ searches[t].pc = "collect"
    /\ LET s == searches[t]
           k == Len(s.fragments) + 1
           idx == s.top_indices[k]
       IN  searches' = [searches EXCEPT ![t] =
               IF df = None THEN SearchOver(s, "raised", "AttributeError")
               ELSE IF idx > Len(df[1]) THEN SearchOver(s, "raised", "IndexError")
               ELSE [s EXCEPT !.fragments = Append(s.fragments, Fragment(df[1][idx])),
                              !.scores = Append(s.scores, s.similarities[idx]),
                              !.pc = IF k = Len(s.top_indices) THEN "done" ELSE "collect",
                              !.kind = IF k = Len(s.top_indices) THEN "returned" ELSE ""]]
    /\ UNCHANGED <<df, embedding_matrix, kbLoad, load_df, ret>>
    /\ UNCHANGED <<splitVars, restVars>>

SearchesNext ==
    \E t \in Threads :
        \/ SearchCheck(t)
        \/ SearchSimilarities(t)
        \/ SearchCollect(t)

SpecSearches == SearchesInit /\ [][SearchesNext]_vars

(***************************************************************************)
(* clean_text (src/lesson14/wiki_data/wiki_parser.py, lines 162-177).      *)
(* The texts of the model are made of a letter, a space, a line break, an  *)
(* ampersand, the rest "amp;" of the character reference "&amp;" and the   *)
(* scheme "http://", each one symbol.  They hold no "<", "{" or "[": the   *)
(* removal of templates (lines 166-167) and the passes of lines 170-173    *)
(* find nothing to act on in them.                                         *)
(***************************************************************************)
MaxCleanLen == 3   \* symbols in a text given to clean_text

CleanSymbols == {"a", " ", "\n", "&", "amp;", "http://"}

\* what \s matches and what str.strip() removes
Whitespace == {" ", "\n"}

\* the splitter takes no part
SplitIdle ==
    /\ titles = <<>>
    /\ text = <<>>
    /\ max_tokens = 1
    /\ max_recursion = 0
    /\ frames = <<>>
    /\ results = <<>>
    /\ maxDepth = 0
    /\ pc = "idle"

RECURSIVE StripOf(_, _)
\* s.strip(chars)
StripOf(s, chars) ==
    IF s = <<>> THEN s
    ELSE IF Head(s) \in chars THEN StripOf(Tail(s), chars)
    ELSE IF s[Len(s)] \in chars THEN StripOf(SubSeq(s, 1, Len(s) - 1), chars)
    ELSE s

RECURSIVE DecodeEntities(_)
\* strip_code(normalize=True): the parser reads "&amp;" as one character
\* reference and strip_code writes the character it names, in one pass
\* over the text
DecodeEntities(s) ==
    IF s = <<>> THEN <<>>
    ELSE IF Len(s) >= 2 /\ s[1] = "&" /\ s[2] = "amp;"
         THEN <<"&">> \o DecodeEntities(SubSeq(s, 3, Len(s)))
    ELSE <<Head(s)>> \o DecodeEntities(Tail(s))

RECURSIVE ReplaceTripleNewlines(_)
\* str.replace("\n\n\n", "\n\n")
ReplaceTripleNewlines(s) ==
    IF Len(s) < 3 THEN s
    ELSE IF s[1] = "\n" /\ s[2] = "\n" /\ s[3] = "\n"
         THEN <<"\n", "\n">> \o ReplaceTripleNewlines(SubSeq(s, 4, Len(s)))
    ELSE <<Head(s)>> \o ReplaceTripleNewlines(Tail(s))

RECURSIVE CollapseNewlines(_)
\* strip_code(collapse=True): while "\n\n\n" in the text, replace it
CollapseNewlines(s) ==
    IF \E i \in 1..(Len(s) - 2) : s[i] = "\n" /\ s[i + 1] = "\n" /\ s[i + 2] = "\n"
    THEN CollapseNewlines(ReplaceTripleNewlines(s))
    ELSE s

\* line 169: code.strip_code() with its defaults normalize and collapse
strip_code(s) == CollapseNewlines(StripOf(DecodeEntities(s), {"\n"}))

RECURSIVE NonSpaceRun(_)
\* how many symbols \S+ takes at the start of s
NonSpaceRun(s) ==
    IF s = <<>> \/ Head(s) \in Whitespace THEN 0
    ELSE 1 + NonSpaceRun(Tail(s))

RECURSIVE RemoveUrls(_)
\* line 174: re.sub(r"http[s]?://\S+", " ", plain)
RemoveUrls(s) ==
    IF s = <<>> THEN <<>>
    ELSE IF Head(s) = "http://" /\ NonSpaceRun(Tail(s)) >= 1
         THEN <<" ">> \o RemoveUrls(SubSeq(s, 2 + NonSpaceRun(Tail(s)), Len(s)))
    ELSE <<Head(s)>> \o RemoveUrls(Tail(s))

RECURSIVE CollapseWhitespace(_)
\* line 175: re.sub(r"\s+", " ", plain)
CollapseWhitespace(s) ==
    IF s = <<>> THEN <<>>
    ELSE IF Head(s) \in Whitespace
         THEN IF Len(s) >= 2 /\ s[2] \in Whitespace
              THEN CollapseWhitespace(Tail(s))
              ELSE <<" ">> \o CollapseWhitespace(Tail(s))
    ELSE <<Head(s)>> \o CollapseWhitespace(Tail(s))

\* lines 162-177
clean_text(s) ==
    StripOf(CollapseWhitespace(RemoveUrls(StripOf(strip_code(s), Whitespace))), Whitespace)

CleanTexts == SeqsUpTo(CleanSymbols, MaxCleanLen)

CleanInit ==
    /\ \E s \in CleanTexts : clean = [pc |-> "text", text |-> s, once |-> <<>>, twice |-> <<>>]
    /\ SplitIdle
    /\ KbConstructed
    /\ chunk = Off
    /\ pipe = Off
    /\ boot = Off
    /\ parse = Off
    /\ prep = Off
    /\ quiz = Off
    /\ bot = Off

\* cleaned = clean_text(text)
CleanOnce ==
    /\ clean.pc = "text"
    /\ clean' = [clean EXCEPT !.pc = "once", !.once = clean_text(clean.text)]
    /\ UNCHANGED <<splitVars, kbVars, chunk, pipe, boot, parse, prep, quiz, bot>>

\* clean_text(cleaned)
CleanTwice ==
    /\ clean.pc = "once"
    /\ clean' = [clean EXCEPT !.pc = "twice", !.twice = clean_text(clean.once)]
    /\ UNCHANGED <<splitVars, kbVars, chunk, pipe, boot, parse, prep, quiz, bot>>

CleanNext == CleanOnce \/ CleanTwice

SpecClean == CleanInit /\ [][CleanNext]_vars

(***************************************************************************)
(* chunk_text (src/lesson14/wiki_data/wiki_parser.py, lines 180-188).      *)
(***************************************************************************)
MaxChunkText == 4    \* characters in a text given to chunk_text
MaxCharsBound == 3   \* largest max_chars tried

ChunkSymbols == {"a", "b", " ", "\n"}

ChunkTexts == SeqsUpTo(ChunkSymbols, MaxChunkText)

\* text[idx : idx + max_chars], idx counted from 0
ChunkSlice(s, idx, n) == SubSeq(s, idx + 1, Min(idx + n, Len(s)))

\* the next idx of range(0, len(text), max_chars)
ChunkStride_skipping(idx, n) == idx + n + 1

ChunkStride(idx, n) == idx + n

ChunkInit ==
    /\ \E s \in ChunkTexts, n \in 1..MaxCharsBound :
          chunk = [pc |-> "loop", text |-> s, max_chars |-> n, idx |-> 0, chunks |-> <<>>]
    /\ SplitIdle
    /\ KbConstructed
    /\ clean = Off
    /\ pipe = Off
    /\ boot = Off
    /\ parse = Off
    /\ prep = Off
    /\ quiz = Off
    /\ bot = Off

\* lines 185-187 with a slice that is not empty once stripped
ChunkAppend ==
    /\ chunk.pc = "loop"
    /\ chunk.idx < Len(chunk.text)
    /\ StripOf(ChunkSlice(chunk.text, chunk.idx, chunk.max_chars), Whitespace) # <<>>
    /\ chunk' = [chunk EXCEPT
          !.chunks = Append(@, StripOf(ChunkSlice(chunk.text, chunk.idx, chunk.max_chars), Whitespace)),
          !.idx = ChunkStride(chunk.idx, chunk.max_chars)]
    /\ UNCHANGED <<splitVars, kbVars, clean, pipe, boot, parse, prep, quiz, bot>>

\* lines 185-186 with a slice of whitespace only
ChunkSkip ==
    /\ chunk.pc = "loop"
    /\ chunk.idx < Len(chunk.text)
    /\ StripOf(ChunkSlice(chunk.text, chunk.idx, chunk.max_chars), Whitespace) = <<>>
    /\ chunk' = [chunk EXCEPT !.idx = ChunkStride(chunk.idx, chunk.max_chars)]
    /\ UNCHANGED <<splitVars, kbVars, clean, pipe, boot, parse, prep, quiz, bot>>

\* line 188
ChunkReturn ==
    /\ chunk.pc = "loop"
    /\ chunk.idx >= Len(chunk.text)
    /\ chunk' = [chunk EXCEPT !.pc = "returned"]
    /\ UNCHANGED <<splitVars, kbVars, clean, pipe, boot, parse, prep, quiz, bot>>

ChunkNext == ChunkAppend \/ ChunkSkip \/ ChunkReturn

SpecChunk == ChunkInit /\ [][ChunkNext]_vars

(***************************************************************************)
(* run_pipeline (src/lesson14/wiki_data/wiki_parser.py, lines 283-326).    *)
(* A fetched page is the list of sections mwparserfromhell returns for it: *)
(* each the markup of its heading (none for the lead) and its body.        *)
(***************************************************************************)
PipeMaxChars == 2        \* largest MAX_CHARS_PER_CHUNK tried
MaxEmbeddingBatch == 2   \* largest EMBEDDING_BATCH_SIZE tried

\* category members are distinct pages
PipeTitleLists == { <<>>, <<"P">>, <<"P", "Q">> }

\* lines 61-70
SECTIONS_TO_IGNORE ==
    { <<"References">>, <<"See also">>, <<"External links">>, <<"Further reading">>,
      <<"Sources">>, <<"Notes">>, <<"Footnotes">>, <<"Bibliography">> }

\* the heading markup of a section; <<>> for the lead, which has none
PipeHeadings ==
    { <<>>,
      <<"=", "=", "History", "=", "=">>,
      <<"=", "=", "=", " ", "History", " ", "=", "=", "=">>,
      <<"=", "=", " ", "Notes", " ", "=", "=">> }

\* section bodies: of three characters, of two, and one that is a link only
PipeBodies == { <<"a", "b", "a">>, <<"a", "b">>, <<"http://", "a">> }

PipeSections == [heading : PipeHeadings, body : PipeBodies]

\* the pages a fetch may return: at most two sections, the lead first
PipePages ==
    { <<s>> : s \in PipeSections }
        \cup { <<s1, s2>> : s1 \in PipeSections, s2 \in { s \in PipeSections : s.heading # <<>> } }

\* lines 144-148: re.sub(r"=+", "", str(headings[0])).strip(), or "Lead"
heading_text(heading) ==
    IF heading = <<>> THEN <<"Lead">>
    ELSE StripOf(SelectSeq(heading, LAMBDA ch : ch # "="), Whitespace)

RECURSIVE extract_sections(_)
\* lines 143-156: the (name, cleaned text) of the sections kept
extract_sections(page) ==
    IF page = <<>> THEN <<>>
    ELSE IF heading_text(Head(page).heading) \in SECTIONS_TO_IGNORE
         THEN extract_sections(Tail(page))
    ELSE IF clean_text(StripOf(strip_code(Head(page).body), Whitespace)) = <<>>
         THEN extract_sections(Tail(page))
    ELSE << [name |-> heading_text(Head(page).heading),
             text |-> clean_text(StripOf(strip_code(Head(page).body), Whitespace))] >>
            \o extract_sections(Tail(page))

RECURSIVE chunk_text_from(_, _, _)
\* the loop of chunk_text from idx on (lines 184-187)
chunk_text_from(s, n, idx) ==
    IF idx >= Len(s) THEN <<>>
    ELSE IF StripOf(ChunkSlice(s, idx, n), Whitespace) = <<>>
         THEN chunk_text_from(s, n, ChunkStride(idx, n))
    ELSE << StripOf(ChunkSlice(s, idx, n), Whitespace) >> \o chunk_text_from(s, n, ChunkStride(idx, n))

\* lines 180-188
chunk_text(s, n) == chunk_text_from(s, n, 0)

\* lines 307-316: the records of one section, chunk_id from enumerate
SectionRecords(title, name, chunks) ==
    [k \in 1..Len(chunks) |->
        [page_title |-> title, section |-> name, chunk_id |-> k - 1, text |-> chunks[k]]]

\* lines 306-316: the records of the sections of one page
PageRecords(title, sections, n) ==
    Concat([i \in 1..Len(sections) |->
        SectionRecords(title, sections[i].name, chunk_text(sections[i].text, n))])

\* lines 200-214: the rows kept for embedding
filter_chunks_for_embedding(records, limit) ==
    SelectSeq(records, LAMBDA r :
        /\ Len(StripOf(r.text, Whitespace)) > 0
        /\ (limit # 0 => Len(r.text) <= limit))

\* the vector the gateway returns for a text
EmbeddingOf(t) == <<Len(t), 1>>

\* lines 250-258: the rows with their embedding column
serialize_embeddings(rows, embeddings) ==
    [k \in 1..Len(rows) |->
        [page_title |-> rows[k].page_title, section |-> rows[k].section,
         chunk_id |-> rows[k].chunk_id, text |-> rows[k].text,
         embedding |-> embeddings[k]]]

\* an output file left by an earlier run
OldCsv == << [page_title |-> "O", section |-> <<"Lead">>, chunk_id |-> 0,
              text |-> <<"a">>, embedding |-> <<1, 1>>] >>

PipeInit ==
    /\ \E ts \in PipeTitleLists, n \in 1..PipeMaxChars, limit \in 0..PipeMaxChars,
          b \in 1..MaxEmbeddingBatch, key \in BOOLEAN, ow \in BOOLEAN,
          file \in {None, Some(OldCsv)} :
          /\ limit <= n
          /\ pipe = [pc |-> "start", titles |-> ts, max_chars |-> n,
                     max_embedding_chars |-> limit, batch_size |-> b,
                     api_key |-> key, overwrite |-> ow, csv |-> file, csv0 |-> file,
                     next |-> 1, records |-> <<>>, df |-> <<>>, start |-> 0,
                     embeddings |-> <<>>, requests |-> <<>>, error |-> ""]
    /\ SplitIdle
    /\ KbConstructed
    /\ clean = Off
    /\ chunk = Off
    /\ boot = Off
    /\ parse = Off
    /\ prep = Off
    /\ quiz = Off
    /\ bot = Off

PipeFrame == UNCHANGED <<splitVars, kbVars, clean, chunk, boot, parse, prep, quiz, bot>>

\* lines 289-292: no titles, return
PipeNoTitles ==
    /\ pipe.pc = "start"
    /\ pipe.titles = <<>>
    /\ pipe' = [pipe EXCEPT !.pc = "returned"]
    /\ PipeFrame

\* line 294
PipeTitles ==
    /\ pipe.pc = "start"
    /\ pipe.titles # <<>>
    /\ pipe' = [pipe EXCEPT !.pc = "pages"]
    /\ PipeFrame

\* lines 297-299: the fetch failed or the page is empty
PipeSkipPage ==
    /\ pipe.pc = "pages"
    /\ pipe.next <= Len(pipe.titles)
    /\ pipe' = [pipe EXCEPT !.next = @ + 1]
    /\ PipeFrame

\* lines 301-305: extract_sections raised; the page is skipped
PipeUnparsable ==
    /\ pipe.pc = "pages"
    /\ pipe.next <= Len(pipe.titles)
    /\ pipe' = [pipe EXCEPT !.next = @ + 1]
    /\ PipeFrame

\* lines 297-316 for a page that was fetched and parsed
PipePage ==
    /\ pipe.pc = "pages"
    /\ pipe.next <= Len(pipe.titles)
    /\ \E page \in PipePages :
          pipe' = [pipe EXCEPT
              !.next = @ + 1,
              !.records = @ \o PageRecords(pipe.titles[pipe.next], extract_sections(page), pipe.max_chars)]
    /\ PipeFrame

\* lines 318-321: no records, return
PipeNoRecords ==
    /\ pipe.pc = "pages"
    /\ pipe.next > Len(pipe.titles)
    /\ pipe.records = <<>>
    /\ pipe' = [pipe EXCEPT !.pc = "returned"]
    /\ PipeFrame

\* line 323 and the call of line 324
PipeFilter ==
    /\ pipe.pc = "pages"
    /\ pipe.next > Len(pipe.titles)
    /\ pipe.records # <<>>
    /\ pipe' = [pipe EXCEPT
          !.pc = "embed",
          !.df = filter_chunks_for_embedding(pipe.records, pipe.max_embedding_chars)]
    /\ PipeFrame

\* lines 220-221: nothing to embed
EmbedNothing ==
    /\ pipe.pc = "embed"
    /\ pipe.df = <<>>
    /\ pipe' = [pipe EXCEPT !.pc = "save"]
    /\ PipeFrame

\* lines 222-223
EmbedNoKey ==
    /\ pipe.pc = "embed"
    /\ pipe.df # <<>>
    /\ ~pipe.api_key
    /\ pipe' = [pipe EXCEPT !.pc = "raised", !.error = "RuntimeError"]
    /\ PipeFrame

\* texts[start : start + EMBEDDING_BATCH_SIZE] (line 229), as row numbers
BatchRows(p) == (p.start + 1)..Min(p.start + p.batch_size, Len(p.df))

\* lines 230-238 with a request that fails, saving the rows embedded so far
EmbedBatchFail_saving_partial ==
    /\ pipe.pc = "embed"
    /\ pipe.df # <<>>
    /\ pipe.api_key
    /\ pipe.start < Len(pipe.df)
    /\ pipe' = [pipe EXCEPT
          !.pc = "raised",
          !.error = "embedding request failed",
          !.requests = Append(@, pipe.start),
          !.csv = Some(serialize_embeddings(SubSeq(pipe.df, 1, Len(pipe.embeddings)), pipe.embeddings))]
    /\ PipeFrame

\* lines 228-238 with a request that fails: logged and raised again; no
\* caller catches it, so run_pipeline ends at line 324
EmbedBatchFail ==
    /\ pipe.pc = "embed"
    /\ pipe.df # <<>>
    /\ pipe.api_key
    /\ pipe.start < Len(pipe.df)
    /\ pipe' = [pipe EXCEPT
          !.pc = "raised",
          !.error = "embedding request failed",
          !.requests = Append(@, pipe.start)]
    /\ PipeFrame

\* lines 228-241 with a request that succeeds
EmbedBatchOk ==
    /\ pipe.pc = "embed"
    /\ pipe.df # <<>>
    /\ pipe.api_key
    /\ pipe.start < Len(pipe.df)
    /\ pipe' = [pipe EXCEPT
          !.requests = Append(@, pipe.start),
          !.embeddings = @ \o [k \in 1..Cardinality(BatchRows(pipe)) |->
                                  EmbeddingOf(pipe.df[pipe.start + k].text)],
          !.start = @ + pipe.batch_size]
    /\ PipeFrame

\* lines 243-244: every batch is embedded
EmbedDone ==
    /\ pipe.pc = "embed"
    /\ pipe.df # <<>>
    /\ pipe.api_key
    /\ pipe.start >= Len(pipe.df)
    /\ pipe' = [pipe EXCEPT !.pc = "save"]
    /\ PipeFrame

\* lines 325-326 and 264-265: the file exists and may not be overwritten.
\* The gateway answers with one vector per text, so the lengths compared at
\* line 250 agree.
SaveExists ==
    /\ pipe.pc = "save"
    /\ pipe.csv # None
    /\ ~pipe.overwrite
    /\ pipe' = [pipe EXCEPT !.pc = "raised", !.error = "FileExistsError"]
    /\ PipeFrame

\* lines 325-326 and 267-270: the file is written and read back
SaveWrite ==
    /\ pipe.pc = "save"
    /\ pipe.csv = None \/ pipe.overwrite
    /\ pipe' = [pipe EXCEPT
          !.pc = "done",
          !.csv = Some(serialize_embeddings(pipe.df, pipe.embeddings))]
    /\ PipeFrame

PipeNext ==
    \/ PipeNoTitles
    \/ PipeTitles
    \/ PipeSkipPage
    \/ PipeUnparsable
    \/ PipePage
    \/ PipeNoRecords
    \/ PipeFilter
    \/ EmbedNothing
    \/ EmbedNoKey
    \/ EmbedBatchFail
    \/ EmbedBatchOk
    \/ EmbedDone
    \/ SaveExists
    \/ SaveWrite

SpecPipe == PipeInit /\ [][PipeNext]_vars

(***************************************************************************)
(* main() of chatbot03 (src/lesson14/chatbot03/main.py, lines 24-53): the  *)
(* configuration, one load() per configured knowledge base, the service,   *)
(* the bot, polling.  Messages are handled only by the polling dispatcher. *)
(***************************************************************************)
MaxHandled == 2   \* questions handled after the bot has started

BootTopics == {"1980", "2022", "x"}

\* csv_urls in the order of os.environ: distinct lower-case topics
BootTopicLists ==
    { q \in SeqsUpTo(BootTopics, 3) : \A i, j \in 1..Len(q) : q[i] = q[j] => i = j }

\* DEFAULT_TOPIC of the environment; "" when it is not set
BootDefaults == BootTopics \cup {""}

\* config.py, lines 56-57: the default topic
ConfigDefaultTopic(topics, default) == IF default = "" THEN topics[1] ELSE default

\* config.py, lines 52-62: what makes Config.load raise
ConfigRaises(topics, default, token) ==
    \/ topics = <<>>
    \/ \A i \in 1..Len(topics) : topics[i] # ConfigDefaultTopic(topics, default)
    \/ ~token

BootInit ==
    /\ \E topics \in BootTopicLists, default \in BootDefaults, token \in BOOLEAN :
          boot = [pc |-> "config", topics |-> topics, default |-> default, token |-> token,
                  next |-> 1, kb |-> [t \in BootTopics |-> "absent"],
                  bases |-> {}, failed |-> {}, searched |-> {}, handled |-> 0]
    /\ SplitIdle
    /\ KbConstructed
    /\ clean = Off
    /\ chunk = Off
    /\ pipe = Off
    /\ parse = Off
    /\ prep = Off
    /\ quiz = Off
    /\ bot = Off

BootFrame == UNCHANGED <<splitVars, kbVars, clean, chunk, pipe, parse, prep, quiz, bot>>

\* line 25: Config.load() raises
BootConfigRaise ==
    /\ boot.pc = "config"
    /\ ConfigRaises(boot.topics, boot.default, boot.token)
    /\ boot' = [boot EXCEPT !.pc = "crashed"]
    /\ BootFrame

\* lines 25-33
BootConfig ==
    /\ boot.pc = "config"
    /\ ~ConfigRaises(boot.topics, boot.default, boot.token)
    /\ boot' = [boot EXCEPT !.pc = "loading"]
    /\ BootFrame

\* lines 34-36 with a load() that raises, the failure logged and the
\* instance kept
BootLoadRaise_kept ==
    /\ boot.pc = "loading"
    /\ boot.next <= Len(boot.topics)
    /\ boot' = [boot EXCEPT
          !.kb[boot.topics[boot.next]] = "constructed",
          !.bases = @ \cup {boot.topics[boot.next]},
          !.failed = @ \cup {boot.topics[boot.next]},
          !.next = @ + 1]
    /\ BootFrame

\* lines 34-36 with a load() that raises (knowledge_base.py, lines 33-38):
\* nothing catches it, main() ends
BootLoadRaise ==
    /\ boot.pc = "loading"
    /\ boot.next <= Len(boot.topics)
    /\ boot' = [boot EXCEPT
          !.pc = "crashed",
          !.kb[boot.topics[boot.next]] = "constructed",
          !.failed = @ \cup {boot.topics[boot.next]}]
    /\ BootFrame

\* lines 34-37 with a load() that returns (knowledge_base.py, lines 33-43)
BootLoad ==
    /\ boot.pc = "loading"
    /\ boot.next <= Len(boot.topics)
    /\ boot' = [boot EXCEPT
          !.kb[boot.topics[boot.next]] = "loaded",
          !.bases = @ \cup {boot.topics[boot.next]},
          !.next = @ + 1]
    /\ BootFrame

\* lines 39-45: AskService over the loaded bases (ask_service.py, lines 14-31)
BootAskService ==
    /\ boot.pc = "loading"
    /\ boot.next > Len(boot.topics)
    /\ boot.bases # {}
    /\ ConfigDefaultTopic(boot.topics, boot.default) \in boot.bases
    /\ boot' = [boot EXCEPT !.pc = "service"]
    /\ BootFrame

\* lines 47-52: TelegramBot and its handlers
BootTelegramBot ==
    /\ boot.pc = "service"
    /\ boot.token
    /\ boot' = [boot EXCEPT !.pc = "bot"]
    /\ BootFrame

\* line 53: telegram_bot.run() starts polling
BootRun ==
    /\ boot.pc = "bot"
    /\ boot' = [boot EXCEPT !.pc = "polling"]
    /\ BootFrame

\* a question handled in the mode of a topic: AskService.answer searches
\* the base of the topic (ask_service.py, lines 36-44)
BootHandle ==
    /\ boot.pc = "polling"
    /\ boot.handled < MaxHandled
    /\ \E t \in boot.bases :
          boot' = [boot EXCEPT
              !.handled = @ + 1,
              !.searched = @ \cup { [topic |-> t, kb |-> boot.kb[t]] }]
    /\ BootFrame

BootNext ==
    \/ BootConfigRaise
    \/ BootConfig
    \/ BootLoadRaise
    \/ BootLoad
    \/ BootAskService
    \/ BootTelegramBot
    \/ BootRun
    \/ BootHandle

SpecBoot == BootInit /\ [][BootNext]_vars

(***************************************************************************)
(* KnowledgeBase.load over the serialized embedding column                 *)
(* (src/lesson14/chatbot03/knowledge_base.py, lines 33-42 and 75-86).      *)
(* A cell of the column is the sequence of its tokens; the cells of the    *)
(* model are flat: brackets or parentheses around numbers and commas, a    *)
(* bare number, a bare word, and the empty cell.                           *)
(***************************************************************************)
MaxCsvRows == 2   \* rows of the CSV file

NumberTokens == {"0", "1"}

NumberValue(tok) == IF tok = "1" THEN 1 ELSE 0

EmbeddingCells ==
    { <<"[", "1", ",", "0", "]">>,          \* [1, 0]
      <<"[", "0", ",", "1", "]">>,          \* [0, 1]
      <<"[", "1", "]">>,                    \* [1]
      <<"[", "1", ",", "0", ",", "]">>,     \* [1, 0,]
      <<"(", "1", ",", "0", ")">>,          \* (1, 0)
      <<"(", "1", ")">>,                    \* (1)
      <<"[", "1", ",", "a", "]">>,          \* [1, a]
      <<"1">>,                              \* 1
      <<"a">>,                              \* a
      <<>> }                                \* an empty cell

\* number, comma, number, ... with no comma at either end
IsItems(s) ==
    \/ s = <<>>
    \/ /\ Len(s) % 2 = 1
       /\ \A k \in 1..Len(s) : IF k % 2 = 1 THEN s[k] \in NumberTokens ELSE s[k] = ","

ItemValues(s) == [k \in 1..((Len(s) + 1) \div 2) |-> NumberValue(s[2 * k - 1])]

\* the cell is s between the tokens open and close
Enclosed(cell, open, close) ==
    /\ Len(cell) >= 2
    /\ cell[1] = open
    /\ cell[Len(cell)] = close

Inner(cell) == SubSeq(cell, 2, Len(cell) - 1)

\* the items of a Python display, which may end with a comma
WithoutTrailingComma(s) ==
    IF s # <<>> /\ s[Len(s)] = "," THEN SubSeq(s, 1, Len(s) - 1) ELSE s

\* the cell is a JSON array of numbers
IsJsonArrayOfNumbers(cell) == Enclosed(cell, "[", "]") /\ IsItems(Inner(cell))

\* line 82: json.loads(raw) of a cell read as a string
json_loads(cell) ==
    IF IsJsonArrayOfNumbers(cell)
    THEN [kind |-> "list", v |-> ItemValues(Inner(cell))]
    ELSE IF Len(cell) = 1 /\ cell[1] \in NumberTokens
    THEN [kind |-> "number", v |-> NumberValue(cell[1])]
    ELSE [kind |-> "JSONDecodeError", v |-> <<>>]

\* line 86: ast.literal_eval(raw) of a cell that is not JSON
literal_eval(cell) ==
    IF /\ Enclosed(cell, "[", "]")
       /\ Inner(cell) # <<",">>
       /\ IsItems(WithoutTrailingComma(Inner(cell)))
    THEN [kind |-> "list", v |-> ItemValues(WithoutTrailingComma(Inner(cell)))]
    ELSE IF /\ Enclosed(cell, "(", ")")
            /\ Inner(cell) # <<",">>
            /\ IsItems(WithoutTrailingComma(Inner(cell)))
            /\ Len(Inner(cell)) # 1
    THEN [kind |-> "tuple", v |-> ItemValues(WithoutTrailingComma(Inner(cell)))]
    ELSE IF Enclosed(cell, "(", ")") /\ Len(Inner(cell)) = 1 /\ Inner(cell)[1] \in NumberTokens
    THEN [kind |-> "number", v |-> NumberValue(Inner(cell)[1])]
    ELSE [kind |-> "ValueError", v |-> <<>>]

\* line 33: pd.read_csv reads a column whose cells are all numbers or
\* empty as numbers, and an empty cell of any column as a float NaN; every
\* other cell is a str
RawIsStr(cells, k) ==
    /\ cells[k] # <<>>
    /\ \E i \in 1..Len(cells) :
          cells[i] # <<>> /\ ~(Len(cells[i]) = 1 /\ cells[i][1] \in NumberTokens)

\* lines 79-86 for the k-th cell.  json.loads of what is not a str is a
\* TypeError, and so is list() of a number.
parse_embedding(cells, k) ==
    IF ~RawIsStr(cells, k) THEN [kind |-> "TypeError", v |-> <<>>]
    ELSE IF json_loads(cells[k]).kind # "JSONDecodeError" THEN json_loads(cells[k])
    ELSE IF literal_eval(cells[k]).kind \in {"list", "tuple"}
         THEN [kind |-> "list", v |-> literal_eval(cells[k]).v]
    ELSE IF literal_eval(cells[k]).kind = "number" THEN [kind |-> "TypeError", v |-> <<>>]
    ELSE [kind |-> "ValueError", v |-> <<>>]

Raises(p) == p.kind \in {"TypeError", "ValueError"}

\* np.vstack sees a number as a row of one column
AsRow(p) == IF p.kind = "number" THEN <<p.v>> ELSE p.v

\* the rows of the file with the embedding column parsed (line 37)
ParsedRows(cells) ==
    [k \in 1..Len(cells) |-> [text |-> "t", embedding |-> AsRow(parse_embedding(cells, k))]]

CsvFiles == { q \in SeqsUpTo(EmbeddingCells, MaxCsvRows) : q # <<>> }

\* what an earlier load() committed
OldRows == << [text |-> "old", embedding |-> <<1, 1>>] >>

ParseInit ==
    /\ \E cells \in CsvFiles, old \in {None, Some(OldRows)} :
          parse = [pc |-> "load", cells |-> cells, error |-> "",
                   df |-> old, df0 |-> old,
                   embedding_matrix |-> IF old = None THEN None ELSE Some(NormalizedMatrix(OldRows)),
                   embedding_matrix0 |-> IF old = None THEN None ELSE Some(NormalizedMatrix(OldRows))]
    /\ SplitIdle
    /\ KbConstructed
    /\ clean = Off
    /\ chunk = Off
    /\ pipe = Off
    /\ boot = Off
    /\ prep = Off
    /\ quiz = Off
    /\ bot = Off

ParseFrame == UNCHANGED <<splitVars, kbVars, clean, chunk, pipe, boot, prep, quiz, bot>>

\* line 37 raises at the first cell _parse_embedding rejects
ParseRaise ==
    /\ parse.pc = "load"
    /\ \E k \in 1..Len(parse.cells) :
          /\ Raises(parse_embedding(parse.cells, k))
          /\ \A i \in 1..(k - 1) : ~Raises(parse_embedding(parse.cells, i))
          /\ parse' = [parse EXCEPT !.pc = "raised", !.error = parse_embedding(parse.cells, k).kind]
    /\ ParseFrame

\* line 38: np.vstack raises on rows of different lengths
ParseStackRaise ==
    /\ parse.pc = "load"
    /\ \A k \in 1..Len(parse.cells) : ~Raises(parse_embedding(parse.cells, k))
    /\ ~Stackable(ParsedRows(parse.cells))
    /\ parse' = [parse EXCEPT !.pc = "raised", !.error = "ValueError"]
    /\ ParseFrame

\* lines 37-42: every cell parsed, the rows stacked, the batch committed
ParseCommit ==
    /\ parse.pc = "load"
    /\ \A k \in 1..Len(parse.cells) : ~Raises(parse_embedding(parse.cells, k))
    /\ Stackable(ParsedRows(parse.cells))
    /\ parse' = [parse EXCEPT
          !.pc = "loaded",
          !.embedding_matrix = Some(NormalizedMatrix(ParsedRows(parse.cells))),
          !.df = Some(ParsedRows(parse.cells))]
    /\ ParseFrame

ParseNext == ParseRaise \/ ParseStackRaise \/ ParseCommit

SpecParse == ParseInit /\ [][ParseNext]_vars

(***************************************************************************)
(* _prepare_question_for_session                                           *)
(* (src/lesson13/quiz_bot_serverless/service.py, lines 68-83).             *)
(***************************************************************************)
MaxOptions == 3   \* options of a question template

OptionTexts == {"A", "B"}

\* question_template.get("correct_option") of a template without the key
NoIndex == -1

\* the correct_option of a template: an index, one out of range, or none
CorrectOptions == (0..MaxOptions) \cup {NoIndex}

\* the question templates of the cache
Templates ==
    [options : SeqsUpTo(OptionTexts, MaxOptions), correct_option : CorrectOptions]

\* the orders random.shuffle may leave a list of n items in
Shuffles(n) ==
    { f \in [1..n -> 1..n] : \A i, j \in 1..n : f[i] = f[j] => i = j }

\* lines 71-73: list(enumerate(options)), shuffled into the order perm
IndexedOptions(options, perm) ==
    [k \in 1..Len(options) |-> [original_index |-> perm[k] - 1, option |-> options[perm[k]]]]

\* the correct_option of the copy left as it is in the template
PreparedCorrect_unmapped(indexed, correct) == IF correct = NoIndex THEN 0 ELSE correct

\* lines 76-82: the first position whose original index is correct_option,
\* and 0 when there is none
PreparedCorrect(indexed, correct) ==
    IF \E k \in 1..Len(indexed) : indexed[k].original_index = correct
    THEN (CHOOSE k \in 1..Len(indexed) :
             /\ indexed[k].original_index = correct
             /\ \A i \in 1..(k - 1) : indexed[i].original_index # correct) - 1
    ELSE 0

PrepInit ==
    /\ \E t \in Templates :
          prep = [pc |-> "called", template |-> t, template0 |-> t,
                  indexed_options |-> <<>>, question_copy |-> t]
    /\ SplitIdle
    /\ KbConstructed
    /\ clean = Off
    /\ chunk = Off
    /\ pipe = Off
    /\ boot = Off
    /\ parse = Off
    /\ quiz = Off
    /\ bot = Off

PrepFrame == UNCHANGED <<splitVars, kbVars, clean, chunk, pipe, boot, parse, quiz, bot>>

\* lines 70-73: the copy of the dict, the list of indexed options, shuffled
PrepShuffle ==
    /\ prep.pc = "called"
    /\ \E perm \in Shuffles(Len(prep.template.options)) :
          prep' = [prep EXCEPT
              !.pc = "shuffled",
              !.indexed_options = IndexedOptions(prep.template.options, perm)]
    /\ PrepFrame

\* lines 75-83: the options and the correct_option of the copy
PrepReturn ==
    /\ prep.pc = "shuffled"
    /\ prep' = [prep EXCEPT
          !.pc = "returned",
          !.question_copy = [options |-> [k \in 1..Len(prep.indexed_options) |->
                                              prep.indexed_options[k].option],
                             correct_option |-> PreparedCorrect(prep.indexed_options,
                                                                prep.template.correct_option)]]
    /\ PrepFrame

PrepNext == PrepShuffle \/ PrepReturn

SpecPrep == PrepInit /\ [][PrepNext]_vars

(***************************************************************************)
(* The quiz of one user: the handlers of                                   *)
(* src/lesson14/chatbot01/handlers.py over the service of                  *)
(* src/lesson13/quiz_bot_serverless/service.py.  The database calls are    *)
(* synchronous, so a handler gives way to another one only where it awaits *)
(* Telegram; a step of the model is the code between two such points.      *)
(* A question of a session is kept as the index of its correct option.     *)
(***************************************************************************)
QuestionsPerSession == 2   \* QUESTIONS_PER_SESSION of the model
MaxUpdates == 4            \* updates (commands and button presses) delivered
AnswerButtons == 2         \* buttons of a question that are pressed

Handlers == {1, 2}

IdleHandler == [pc |-> "idle", qi |-> 0, ai |-> 0, msg |-> 0, is_correct |-> FALSE]

\* the text of a question message: as sent, or edited by line 112
AnswerText(ai) == IF ai = 0 THEN "answer 0" ELSE "answer 1"

\* what _assign_questions_for_user may select (lines 92-93)
Sessions == [1..QuestionsPerSession -> [correct_option : 0..(AnswerButtons - 1)]]

\* the row of quiz_state before the user has played
NoRow == [row |-> FALSE, question_index |-> 0, correct_answers |-> 0,
          incorrect_answers |-> 0, is_active |-> FALSE]

\* service.py, lines 169-190: the UPSERT of start_quiz_session
StartedRow == [row |-> TRUE, question_index |-> 0, correct_answers |-> 0,
               incorrect_answers |-> 0, is_active |-> TRUE]

\* service.py, lines 86-91 under ensure_session_questions (98-102): there
\* are no questions in memory and too few in the cache
EnsureRaises(q) == q.active = None /\ q.cache < QuestionsPerSession

\* service.py, lines 98-102: _active_user_questions[user_id] afterwards
Ensured(q) == IF q.active # None THEN {q.active} ELSE { Some(s) : s \in Sessions }

\* service.py, lines 238-252: finish_quiz_session
FinishSession(q) ==
    IF ~q.db.row THEN q
    ELSE [q EXCEPT !.db.is_active = FALSE, !.db.question_index = 0, !.active = None]

\* handlers.py, lines 133-147: _show_results_and_finish, the summary sent
\* with the counters read before the update
ShowResultsAndFinish(q) ==
    IF ~q.db.row THEN q
    ELSE [FinishSession(q) EXCEPT
             !.shown = @ \cup { [correct |-> q.db.correct_answers,
                                 incorrect |-> q.db.incorrect_answers] }]

\* service.py, lines 109-115: get_session_question
get_session_question(q, question_index) ==
    IF q.active = None THEN None
    ELSE IF 0 <= question_index /\ question_index < Len(q.active[1])
         THEN Some(q.active[1][question_index + 1])
    ELSE None

QuizInit ==
    /\ \E n \in {QuestionsPerSession - 1, QuestionsPerSession} :
          quiz = [cache |-> n, db |-> NoRow, active |-> None, msgs |-> <<>>,
                  h |-> [i \in Handlers |-> IdleHandler], shown |-> {},
                  recorded |-> [k \in 0..(QuestionsPerSession - 1) |-> 0],
                  updates |-> 0, failed |-> 0]
    /\ SplitIdle
    /\ KbConstructed
    /\ clean = Off
    /\ chunk = Off
    /\ pipe = Off
    /\ boot = Off
    /\ parse = Off
    /\ prep = Off
    /\ bot = Off

QuizFrame == UNCHANGED <<splitVars, kbVars, clean, chunk, pipe, boot, parse, prep, bot>>

\* an update is delivered to a free handler
Delivered(i) == quiz.h[i].pc = "idle" /\ quiz.updates < MaxUpdates

\* cmd_quiz, lines 44-50: the quiz is active already
QuizAlreadyActive(i) ==
    /\ Delivered(i)
    /\ quiz.db.row /\ quiz.db.is_active
    /\ quiz' = [quiz EXCEPT !.updates = @ + 1]
    /\ QuizFrame

\* cmd_quiz, lines 52-53 with start_quiz_session raising in
\* ensure_session_questions after its UPSERT and its reset (service.py,
\* lines 190-192 and 88-91); cmd_quiz does not catch it
QuizStartRaise(i) ==
    /\ Delivered(i)
    /\ ~(quiz.db.row /\ quiz.db.is_active)
    /\ EnsureRaises([quiz EXCEPT !.active = None])
    /\ quiz' = [quiz EXCEPT
          !.updates = @ + 1,
          !.db = StartedRow,
          !.active = None,
          !.recorded = [k \in 0..(QuestionsPerSession - 1) |-> 0],
          !.failed = @ + 1]
    /\ QuizFrame

\* cmd_quiz, lines 52-57: the session is started
QuizStartSession(i) ==
    /\ Delivered(i)
    /\ ~(quiz.db.row /\ quiz.db.is_active)
    /\ ~EnsureRaises([quiz EXCEPT !.active = None])
    /\ \E s \in Sessions :
          quiz' = [quiz EXCEPT
              !.updates = @ + 1,
              !.db = StartedRow,
              !.active = Some(s),
              !.recorded = [k \in 0..(QuestionsPerSession - 1) |-> 0],
              !.h[i] = [IdleHandler EXCEPT !.pc = "first"]]
    /\ QuizFrame

\* cmd_quiz, lines 58-59 and new_quiz (service.py, lines 143-164): the
\* first question is sent
QuizSendFirst(i) ==
    /\ quiz.h[i].pc = "first"
    /\ ~EnsureRaises(quiz)
    /\ \E a \in Ensured(quiz) :
          quiz' = [quiz EXCEPT
              !.active = a,
              !.msgs = Append(@, [qi |-> 0, text |-> "question"]),
              !.h[i].pc = "set_index"]
    /\ QuizFrame

\* cmd_quiz, lines 60-66: new_quiz raised because Telegram refused the
\* message, the session is finished.  The cache is read once, so
\* ensure_session_questions cannot raise after start_quiz_session returned;
\* and new_quiz returns False only for a session without questions, so
\* lines 68-74 are not reached.
QuizSendFails(i) ==
    /\ quiz.h[i].pc = "first"
    /\ quiz' = [FinishSession(quiz) EXCEPT !.h[i] = IdleHandler, !.failed = @ + 1]
    /\ QuizFrame

\* new_quiz, line 165: set_question_index, and the handler returns
SetQuestionIndex(i) ==
    /\ quiz.h[i].pc = "set_index"
    /\ quiz' = [quiz EXCEPT
          !.db.question_index = IF quiz.db.row THEN quiz.h[i].qi ELSE @,
          !.h[i] = IdleHandler]
    /\ QuizFrame

\* cmd_stop, lines 80-86: no active quiz
StopInactive(i) ==
    /\ Delivered(i)
    /\ ~(quiz.db.row /\ quiz.db.is_active)
    /\ quiz' = [quiz EXCEPT !.updates = @ + 1]
    /\ QuizFrame

\* cmd_stop, line 87: the results are shown and the session finished
StopFinish(i) ==
    /\ Delivered(i)
    /\ quiz.db.row /\ quiz.db.is_active
    /\ quiz' = [ShowResultsAndFinish(quiz) EXCEPT !.updates = @ + 1]
    /\ QuizFrame

\* process_quiz_answer, lines 92-104: a button of a question message is
\* pressed and no question is found for its index
AnswerNotFound(i) ==
    /\ Delivered(i)
    /\ \E m \in 1..Len(quiz.msgs) :
          /\ quiz.msgs[m].text = "question"
          /\ get_session_question(quiz, quiz.msgs[m].qi) = None
    /\ quiz' = [quiz EXCEPT !.updates = @ + 1]
    /\ QuizFrame

\* process_quiz_answer, lines 92-111: a button of a question message that
\* still has its keyboard is pressed and the question of its index found
AnswerStart(i) ==
    /\ Delivered(i)
    /\ \E m \in 1..Len(quiz.msgs), ai \in 0..(AnswerButtons - 1) :
          /\ quiz.msgs[m].text = "question"
          /\ get_session_question(quiz, quiz.msgs[m].qi) # None
          /\ quiz' = [quiz EXCEPT
                !.updates = @ + 1,
                !.h[i] = [pc |-> "edit", qi |-> quiz.msgs[m].qi, ai |-> ai, msg |-> m,
                          is_correct |->
                              ai = get_session_question(quiz, quiz.msgs[m].qi)[1].correct_option]]
    /\ QuizFrame

\* line 112 refused by Telegram: the message has this text already
AnswerEditRaise(i) ==
    /\ quiz.h[i].pc = "edit"
    /\ quiz.msgs[quiz.h[i].msg].text = AnswerText(quiz.h[i].ai)
    /\ quiz' = [quiz EXCEPT !.h[i] = IdleHandler, !.failed = @ + 1]
    /\ QuizFrame

\* lines 112-122: the message is edited, which removes its keyboard
AnswerEdit(i) ==
    /\ quiz.h[i].pc = "edit"
    /\ quiz.msgs[quiz.h[i].msg].text # AnswerText(quiz.h[i].ai)
    /\ quiz' = [quiz EXCEPT
          !.msgs[quiz.h[i].msg].text = AnswerText(quiz.h[i].ai),
          !.h[i].pc = "record"]
    /\ QuizFrame

\* lines 124-125: record_answer (service.py, lines 212-221)
AnswerRecord(i) ==
    /\ quiz.h[i].pc = "record"
    /\ quiz' = [quiz EXCEPT
          !.db.correct_answers = IF quiz.db.row /\ quiz.h[i].is_correct THEN @ + 1 ELSE @,
          !.db.incorrect_answers = IF quiz.db.row /\ ~quiz.h[i].is_correct THEN @ + 1 ELSE @,
          !.recorded[quiz.h[i].qi] = @ + 1,
          !.h[i].pc = "next"]
    /\ QuizFrame

\* lines 127-128 and new_quiz: the next question is sent
\* (ensure_session_questions assigns new questions when a concurrent
\* handler has finished the session)
AnswerSendNext(i) ==
    /\ quiz.h[i].pc = "next"
    /\ ~EnsureRaises(quiz)
    /\ quiz.h[i].qi + 1 < QuestionsPerSession
    /\ \E a \in Ensured(quiz) :
          quiz' = [quiz EXCEPT
              !.active = a,
              !.msgs = Append(@, [qi |-> quiz.h[i].qi + 1, text |-> "question"]),
              !.h[i].pc = "set_index",
              !.h[i].qi = @ + 1]
    /\ QuizFrame

\* lines 127-130: there is no next question, the results are shown
AnswerLast(i) ==
    /\ quiz.h[i].pc = "next"
    /\ ~EnsureRaises(quiz)
    /\ quiz.h[i].qi + 1 >= QuestionsPerSession
    /\ \E a \in Ensured(quiz) :
          quiz' = [ShowResultsAndFinish([quiz EXCEPT !.active = a]) EXCEPT !.h[i] = IdleHandler]
    /\ QuizFrame

QuizNext ==
    \E i \in Handlers :
        \/ QuizAlreadyActive(i)
        \/ QuizStartRaise(i)
        \/ QuizStartSession(i)
        \/ QuizSendFirst(i)
        \/ QuizSendFails(i)
        \/ SetQuestionIndex(i)
        \/ StopInactive(i)
        \/ StopFinish(i)
        \/ AnswerNotFound(i)
        \/ AnswerStart(i)
        \/ AnswerEditRaise(i)
        \/ AnswerEdit(i)
        \/ AnswerRecord(i)
        \/ AnswerSendNext(i)
        \/ AnswerLast(i)

SpecQuiz == QuizInit /\ [][QuizNext]_vars

(***************************************************************************)
(* TelegramBot (src/lesson14/chatbot03/telegram_bot.py) as main() builds   *)
(* it over an AskService: the mode commands and the questions of two       *)
(* users.  A question is answered in a worker thread, so other updates     *)
(* are handled between the read of the mode and the answer.                *)
(***************************************************************************)
TALK_MODE == "talk"

\* the topics a configuration may name (config.py, lines 77-87)
BotTopics == {"1980", "2022", "x"}

\* the modes the commands /talk, /1980 and /2022 ask for (lines 71-79)
CommandModes == {TALK_MODE, "1980", "2022"}

BotUsers == {"u1", "u2"}

\* user_modes.get(user_id) of a user who has set no mode
NoMode == "unset"

\* no question of the user is being answered
NoQuestion == "none"

\* lines 50-52: default_mode
DefaultMode(default_topic, available_topics) ==
    IF default_topic \in available_topics THEN default_topic ELSE TALK_MODE

\* line 160 with every mode let through
ModeRefused_never(b, mode) == FALSE

\* line 160: the mode is neither the talk mode nor an available topic
ModeRefused(b, mode) == mode # TALK_MODE /\ mode \notin b.available_topics

\* lines 96 and 124: user_modes.get(user_id, self.default_mode)
ModeOf(b, u) == IF b.user_modes[u] = NoMode THEN b.default_mode ELSE b.user_modes[u]

BotInit ==
    /\ \E bases \in (SUBSET BotTopics) \ {{}} :
          \E default_topic \in bases :
              bot = [bases |-> bases,
                     available_topics |-> bases,
                     default_mode |-> DefaultMode(default_topic, bases),
                     user_modes |-> [u \in BotUsers |-> NoMode],
                     answering |-> [u \in BotUsers |-> NoQuestion],
                     asked |-> {},
                     refused |-> FALSE]
    /\ SplitIdle
    /\ KbConstructed
    /\ clean = Off
    /\ chunk = Off
    /\ pipe = Off
    /\ boot = Off
    /\ parse = Off
    /\ prep = Off
    /\ quiz = Off

BotFrame == UNCHANGED <<splitVars, kbVars, clean, chunk, pipe, boot, parse, prep, quiz>>

\* _set_mode, lines 160-162: the mode is not available
SetModeRefused(u, mode) ==
    /\ ModeRefused(bot, mode)
    /\ bot' = [bot EXCEPT !.refused = TRUE]
    /\ BotFrame

\* _set_mode, lines 163-164
SetMode(u, mode) ==
    /\ ~ModeRefused(bot, mode)
    /\ bot' = [bot EXCEPT !.user_modes[u] = mode]
    /\ BotFrame

\* handle_message, lines 121-125: the mode of the user is read
HandleQuestion(u) ==
    /\ bot.answering[u] = NoQuestion
    /\ bot' = [bot EXCEPT !.answering[u] = ModeOf(bot, u)]
    /\ BotFrame

\* _answer_with_mode, lines 129-130 and 143-144: the talk mode
AnswerDirect(u) ==
    /\ bot.answering[u] = TALK_MODE
    /\ bot' = [bot EXCEPT !.answering[u] = NoQuestion]
    /\ BotFrame

\* _answer_with_mode, lines 131-132 and 143-144: AskService.answer with
\* the mode as its topic
AnswerFromBase(u) ==
    /\ bot.answering[u] \notin {NoQuestion, TALK_MODE}
    /\ bot.answering[u] \in bot.available_topics
    /\ bot' = [bot EXCEPT !.answering[u] = NoQuestion, !.asked = @ \cup {bot.answering[u]}]
    /\ BotFrame

BotNext ==
    \E u \in BotUsers :
        \/ \E mode \in CommandModes : SetModeRefused(u, mode)
        \/ \E mode \in CommandModes : SetMode(u, mode)
        \/ HandleQuestion(u)
        \/ AnswerDirect(u)
        \/ AnswerFromBase(u)

SpecBot == BotInit /\ [][BotNext]_vars

(***************************************************************************)
(* Properties of KnowledgeBase (SpecKB).                                   *)
(***************************************************************************)
\* a search that returned its ranking from a batch whose load() completed
\* and with no load() running
RankedOnLoadedBatch ==
    /\ ret.op = "search"
    /\ ret.kind = "returned"
    /\ ~Blank(ret.query)
    /\ NormSq(ret.qv) # 0
    /\ kbLoad = "idle"
    /\ ~NotLoaded(df, embedding_matrix)

\* the similarity of stored row i to the query of the search that just ended
SimOf(i) == Similarity(embedding_matrix[1][i], ret.qv)

Returned(i) == \E k \in 1..Len(ret.indices) : ret.indices[k] = i

\* the table and the matrix are of one batch: both None, or the matrix is
\* the normalized embeddings of the table, row for row
SameBatch ==
    \/ df = None /\ embedding_matrix = None
    \/ /\ df # None /\ embedding_matrix # None
       /\ Len(df[1]) = Len(embedding_matrix[1])
       /\ embedding_matrix[1] = NormalizedMatrix(df[1])

\* C3: on a loaded batch, search returns at most min(top_n, len(batch))
\* results, for every top_n >= 0.
C3_AtMostTopN ==
    (ret.op = "search" /\ ret.kind = "returned" /\ kbLoad = "idle"
        /\ ~NotLoaded(df, embedding_matrix) /\ ret.top_n >= 0)
    => Len(ret.fragments) <= Min(ret.top_n, Len(df[1]))

\* what holds of C3: the bound for every top_n >= 1
AtMostTopNWhenPositive ==
    (ret.op = "search" /\ ret.kind = "returned" /\ kbLoad = "idle"
        /\ ~NotLoaded(df, embedding_matrix) /\ ret.top_n >= 1)
    => Len(ret.fragments) <= Min(ret.top_n, Len(df[1]))

\* C4 as stated: of two stored fragments of equal similarity the one with
\* the lower load index is ranked first, and is the one returned when only
\* one of them is.
C4_LowerIndexWinsTies ==
    RankedOnLoadedBatch /\ ret.top_n >= 1 =>
        /\ \A a, b \in 1..Len(ret.indices) :
              (a < b /\ SimEq(ret.scores[a], ret.scores[b])) => ret.indices[a] < ret.indices[b]
        /\ \A i, j \in 1..Len(embedding_matrix[1]) :
              (Returned(i) /\ ~Returned(j) /\ SimEq(SimOf(i), SimOf(j))) => i < j

\* C4 as amended: fragments of equal similarity are ranked next to each
\* other (only fragments of that similarity between them), in no fixed order
\* of their load indices, and one of them is left out while the other is
\* returned only at the cut: the last returned score is their similarity.
C4_TiesAdjacentCutAtTheEnd ==
    RankedOnLoadedBatch /\ ret.top_n >= 1 =>
        /\ \A a, b, c \in 1..Len(ret.indices) :
              (a < c /\ c < b /\ SimEq(ret.scores[a], ret.scores[b]))
                  => SimEq(ret.scores[c], ret.scores[a])
        /\ \A i, j \in 1..Len(embedding_matrix[1]) :
              (Returned(i) /\ ~Returned(j) /\ SimEq(SimOf(i), SimOf(j)))
                  => SimEq(ret.scores[Len(ret.scores)], SimOf(j))

\* a search that returned one of two fragments of equal similarity and left
\* the other out
C4_Witness ==
    /\ RankedOnLoadedBatch
    /\ ret.top_n >= 1
    /\ \E i, j \in 1..Len(embedding_matrix[1]) :
          Returned(i) /\ ~Returned(j) /\ SimEq(SimOf(i), SimOf(j))

\* C5 as stated: on an instance on which no load has succeeded, search
\* raises the not-loaded RuntimeError for every query.
C5_SearchBeforeLoadRaises ==
    (ret.op = "search" /\ df = None) => (ret.kind = "raised" /\ ret.error = "RuntimeError")

\* C5 as amended: on an instance on which no load has succeeded, search
\* raises the not-loaded RuntimeError for every query that is not blank, and
\* returns [], [] for a blank one.
C5_NonBlankSearchBeforeLoadRaises ==
    (ret.op = "search" /\ df = None) =>
        IF Blank(ret.query)
        THEN ret.kind = "returned" /\ ret.fragments = <<>> /\ ret.scores = <<>>
        ELSE ret.kind = "raised" /\ ret.error = "RuntimeError"

\* a search with a query that is not blank, before any load has succeeded
C5_Witness ==
    /\ ret.op = "search"
    /\ df = None
    /\ ~Blank(ret.query)
    /\ ret.kind = "raised"

\* C6: a load of a batch that cannot be stacked raises and leaves _df and
\* _embedding_matrix as they were; no batch with rows of different lengths
\* is ever stored.
C6_FailedLoadChangesNothing ==
    /\ (ret.op = "load" /\ ret.kind = "raised") =>
           (<<df, embedding_matrix>> = ret.before /\ kbLoad = "idle")
    /\ embedding_matrix # None =>
           \A i, j \in 1..Len(embedding_matrix[1]) :
               Len(embedding_matrix[1][i].num) = Len(embedding_matrix[1][j].num)
    /\ df # None => Stackable(df[1])

\* a load that raised on an instance that holds a loaded batch
C6_Witness ==
    /\ ret.op = "load"
    /\ ret.kind = "raised"
    /\ df # None
    /\ SameBatch

\* C7 as stated: whatever a search observes, also between the steps of a
\* load() running again on the instance, the table and the matrix are of one
\* batch and of equal length.
C7_SearchSeesOneBatch ==
    (ret.op = "search" /\ ~Blank(ret.query) /\ df # None /\ embedding_matrix # None)
        => SameBatch

\* C7 as amended: while no load() is running on the instance, the table and
\* the matrix are of one batch and of equal length.
C7_OneBatchWhileNoLoadRuns ==
    kbLoad = "idle" => SameBatch

\* a search that returned fragments while no load() was running
C7_Witness ==
    /\ RankedOnLoadedBatch
    /\ Len(ret.fragments) >= 2
    /\ SameBatch

\* C9: the returned scores never increase, and the k-th score is the
\* similarity of the k-th returned fragment.
C9_ScoresNonIncreasing ==
    RankedOnLoadedBatch =>
        /\ Len(ret.scores) = Len(ret.fragments)
        /\ \A k \in 1..(Len(ret.scores) - 1) : ~SimLess(ret.scores[k], ret.scores[k + 1])
        /\ \A k \in 1..Len(ret.scores) :
              /\ ret.indices[k] \in 1..Len(df[1])
              /\ ret.fragments[k] = Fragment(df[1][ret.indices[k]])
              /\ ret.scores[k] = SimOf(ret.indices[k])

\* a search that returned scores that do fall
C9_Witness ==
    /\ RankedOnLoadedBatch
    /\ Len(ret.scores) >= 2
    /\ SimLess(ret.scores[Len(ret.scores)], ret.scores[1])

\* C10: for top_n >= 1 every returned fragment is at least as similar to
\* the query as every stored fragment that is not returned, and no stored
\* fragment is returned twice; [1,0,0], [0,1,0], [1,1,0] queried with [2,0,0]
\* and top_n = 2 give fragment 0, then fragment 2.
C10_TopScoringReturned ==
    RankedOnLoadedBatch /\ ret.top_n >= 1 =>
        /\ \A i, j \in 1..Len(embedding_matrix[1]) :
              (Returned(i) /\ ~Returned(j)) => ~SimLess(SimOf(i), SimOf(j))
        /\ \A a, b \in 1..Len(ret.indices) : a # b => ret.indices[a] # ret.indices[b]
        /\ (df[1] = <<RowX, RowY, RowXY>> /\ ret.qv = <<2, 0, 0>> /\ ret.top_n = 2)
              => ret.indices = <<1, 3>>

\* the search of the example: rows 1 and 3 returned, row 2 left out
C10_Witness ==
    /\ RankedOnLoadedBatch
    /\ df[1] = <<RowX, RowY, RowXY>>
    /\ ret.qv = <<2, 0, 0>>
    /\ ret.top_n = 2
    /\ ret.fragments = <<Fragment(RowX), Fragment(RowXY)>>

\* C11: the load of a batch of zero fragments succeeds, and a search on the
\* empty index it leaves returns an empty result for every query.
C11_EmptyIndexSearchReturnsEmpty ==
    /\ (ret.op = "load" /\ ret.batch = <<>>) => (ret.kind = "ok" /\ df = Some(<<>>))
    /\ (ret.op = "search" /\ df = Some(<<>>) /\ kbLoad = "idle")
           => (ret.kind = "returned" /\ ret.fragments = <<>> /\ ret.scores = <<>>)

\* what the code does with a batch of zero fragments: the load raises, and
\* no index is ever empty
EmptyBatchLoadRaises ==
    /\ (ret.op = "load" /\ ret.batch = <<>>) => (ret.kind = "raised" /\ ret.error = "ValueError")
    /\ df # Some(<<>>)
    /\ embedding_matrix # Some(<<>>)

\* C12: on a loaded non-empty index, for every top_n, a search whose query
\* has an embedding of norm zero returns no fragments and no scores, and
\* does not raise.
C12_ZeroNormQueryReturnsEmpty ==
    (ret.op = "search" /\ ~Blank(ret.query) /\ ret.qv # <<>> /\ NormSq(ret.qv) = 0
        /\ ~NotLoaded(df, embedding_matrix) /\ Len(df[1]) > 0)
    => (ret.kind = "returned" /\ ret.fragments = <<>> /\ ret.scores = <<>>)

\* a search with a zero vector and top_n >= 1 on a loaded index of two rows
C12_Witness ==
    /\ ret.op = "search"
    /\ ret.kind = "returned"
    /\ ~Blank(ret.query)
    /\ ret.qv = <<0, 0, 0>>
    /\ ret.top_n >= 1
    /\ kbLoad = "idle"
    /\ df # None
    /\ Len(df[1]) >= 2

\* C13: after a load that returned, the instance holds the rows of its batch
\* in batch order, the table and the matrix both as long as the batch, and
\* nothing of the batch held before.
C13_LoadReplacesBatch ==
    (ret.op = "load" /\ ret.kind = "ok") =>
        /\ df = Some(ret.batch)
        /\ embedding_matrix # None
        /\ Len(df[1]) = Len(ret.batch)
        /\ Len(embedding_matrix[1]) = Len(ret.batch)
        /\ \A i \in 1..Len(ret.batch) :
              /\ df[1][i] = ret.batch[i]
              /\ embedding_matrix[1][i] = NormalizeRow(ret.batch[i].embedding)

\* a second load that returned, its batch shorter than the one it replaced
C13_Witness ==
    /\ ret.op = "load"
    /\ ret.kind = "ok"
    /\ ret.before[1] # None
    /\ Len(ret.before[1][1]) > Len(ret.batch)
    /\ df = Some(ret.batch)

\* what search(query, top_n) returns or raises when it runs alone on table d
\* and matrix m and the query embeds to qv: one outcome for every order
\* np.argsort may give
SearchAlone(d, m, query, top_n, qv) ==
    IF Blank(query) THEN { [kind |-> "returned", error |-> "", fragments |-> <<>>, scores |-> <<>>] }
    ELSE IF NotLoaded(d, m)
    THEN { [kind |-> "raised", error |-> "RuntimeError", fragments |-> <<>>, scores |-> <<>>] }
    ELSE IF NormSq(qv) = 0
    THEN { [kind |-> "returned", error |-> "", fragments |-> <<>>, scores |-> <<>>] }
    ELSE IF Len(m[1][1].num) # Len(qv)
    THEN { [kind |-> "raised", error |-> "ValueError", fragments |-> <<>>, scores |-> <<>>] }
    ELSE { [kind |-> "returned", error |-> "",
            fragments |-> [k \in 1..Len(ti) |-> Fragment(d[1][ti[k]])],
            scores |-> [k \in 1..Len(ti) |-> Similarity(m[1][ti[k]], qv)]] :
              ti \in { TopIndices(order, Min(top_n, Len(m[1]))) :
                         order \in Argsorts(Similarities(m[1], qv)) } }

\* the outcome of the search() of a thread
SearchResult(s) ==
    [kind |-> s.kind, error |-> s.error, fragments |-> s.fragments, scores |-> s.scores]

\* C14: search() leaves the table and the matrix as load() left them, and
\* every search that runs interleaved with another ends as that search
\* can end when it runs alone.
C14_SearchesReadOnly ==
    /\ df = Some(ret.batch)
    /\ embedding_matrix = Some(NormalizedMatrix(ret.batch))
    /\ \A t \in Threads :
          searches[t].pc = "done" =>
              SearchResult(searches[t]) \in
                  SearchAlone(df, embedding_matrix, searches[t].query, searches[t].top_n,
                              searches[t].qv)

\* one search has returned two fragments while the other is inside its loop
C14_Witness ==
    /\ searches["t1"].pc = "collect"
    /\ Len(searches["t1"].fragments) >= 1
    /\ searches["t2"].pc = "done"
    /\ searches["t2"].kind = "returned"
    /\ Len(searches["t2"].fragments) >= 2
    /\ searches["t1"].qv # searches["t2"].qv

(***************************************************************************)
(* Properties of the bisection (SpecSplit).  A step that makes frames one  *)
(* longer is a bisection: the call on top is replaced by the calls for its *)
(* left and its right half.                                                *)
(***************************************************************************)
Bisects == Len(frames') = Len(frames) + 1

\* the pieces of body between the occurrences of Delimiters[d]
Pieces(body, d) == StrSplit(body, Delimiters[d])

\* the first i pieces of body, joined again
AlignedPrefix(body, d, i) == Join(SubSeq(Pieces(body, d), 1, i), Delimiters[d])

\* the pieces of body after the first i, joined again
AlignedSuffix(body, d, i) ==
    Join(SubSeq(Pieces(body, d), i + 1, Len(Pieces(body, d))), Delimiters[d])

\* left and right are body cut at the i-th occurrence of Delimiters[d]
CutAt(body, d, i, left, right) ==
    /\ i \in 1..(Len(Pieces(body, d)) - 1)
    /\ left = AlignedPrefix(body, d, i)
    /\ right = AlignedSuffix(body, d, i)

\* how far the first i pieces are from half of the tokens of the body
SizeGap(body, d, i) ==
    Abs((num_tokens(body) \div 2) - num_tokens(AlignedPrefix(body, d, i)))

\* C15 as stated: the left half of a bisection is the delimiter-aligned
\* prefix of the body that measures the most among those that measure at
\* most half of the candidate string (labels and body).
C15_LeftClosestBelowHalf ==
    [][Bisects =>
        \E d \in 1..Len(Delimiters) : \E i \in 1..(Len(Pieces(Top.text, d)) - 1) :
            /\ CutAt(Top.text, d, i, frames'[1].text, frames'[2].text)
            /\ 2 * num_tokens(frames'[1].text) <= num_tokens(TopString)
            /\ \A j \in 1..(Len(Pieces(Top.text, d)) - 1) :
                  2 * num_tokens(AlignedPrefix(Top.text, d, j)) <= num_tokens(TopString)
                      => num_tokens(AlignedPrefix(Top.text, d, j)) <= num_tokens(frames'[1].text)
      ]_vars

\* C15 as amended: a body of two pieces is cut at its one delimiter; a body
\* of more pieces is cut after the first i pieces, where every piece up to
\* the i-th brings the prefix strictly closer to half of the tokens of the
\* body alone (rounded down, the distance taken in absolute value) and the
\* next piece does not.
C15_LeftWhereGapStopsShrinking ==
    [][Bisects =>
        \E d \in 1..Len(Delimiters) : \E i \in 1..(Len(Pieces(Top.text, d)) - 1) :
            /\ CutAt(Top.text, d, i, frames'[1].text, frames'[2].text)
            /\ Len(Pieces(Top.text, d)) > 2 =>
                  /\ \A j \in 1..i : SizeGap(Top.text, d, j) < SizeGap(Top.text, d, j - 1)
                  /\ SizeGap(Top.text, d, i + 1) >= SizeGap(Top.text, d, i)
      ]_vars

\* the top-level call has just bisected a body of three or more pieces, and
\* the left half measures more than half of the body
C15_Witness ==
    /\ pc = "run"
    /\ results = <<>>
    /\ Len(frames) = 2
    /\ frames[1].depth = 1
    /\ FirstDelimiter(text) # 0
    /\ Len(Pieces(text, FirstDelimiter(text))) > 2
    /\ CutAt(text, FirstDelimiter(text), 1, frames[1].text, frames[2].text)
    /\ 2 * num_tokens(frames[1].text) > num_tokens(text)

\* the call on top is for a candidate string that measures more than
\* max_tokens
Oversized == pc = "run" /\ ~HasSpecial(TopString) /\ ~Fits(TopString, max_tokens)

\* Delimiters[d] cuts body into two halves that are both non-empty
Halves(body, d) ==
    /\ halved_by_delimiter(body, Delimiters[d])[1] # <<>>
    /\ halved_by_delimiter(body, Delimiters[d])[2] # <<>>

\* C16: a call for an oversized candidate with max_recursion > 0 and a
\* delimiter that halves the body bisects it; the bisection is by the first
\* of paragraph break, line break, period-and-space that gives two
\* non-empty halves, every delimiter before it having given an empty half,
\* and both halves are split with max_recursion - 1.
C16_FirstHalvingDelimiter ==
    [][/\ (Oversized /\ Top.rec > 0 /\ \E d \in 1..Len(Delimiters) : Halves(Top.text, d))
           => Bisects
       /\ Bisects =>
           /\ Oversized
           /\ Top.rec > 0
           /\ Delimiters = << <<"\n", "\n">>, <<"\n">>, <<".", " ">> >>
           /\ \E d \in 1..Len(Delimiters) :
                 /\ Halves(Top.text, d)
                 /\ \A e \in 1..(d - 1) : ~Halves(Top.text, e)
                 /\ frames'[1].text = halved_by_delimiter(Top.text, Delimiters[d])[1]
                 /\ frames'[2].text = halved_by_delimiter(Top.text, Delimiters[d])[2]
           /\ frames'[1].rec = Top.rec - 1
           /\ frames'[2].rec = Top.rec - 1
           /\ SubSeq(frames', 3, Len(frames')) = Tail(frames)
      ]_vars

\* the top-level call has just bisected its body at its first ". ", the
\* body holding a line break that gave an empty half
C16_Witness ==
    /\ pc = "run"
    /\ results = <<>>
    /\ Len(frames) = 2
    /\ frames[1].depth = 1
    /\ frames[1].rec = max_recursion - 1
    /\ Find(text, <<"\n">>) # 0
    /\ ~Halves(text, 2)
    /\ Halves(text, 3)
    /\ frames[1].text = halved_by_delimiter(text, <<".", " ">>)[1]
    /\ frames[2].text = halved_by_delimiter(text, <<".", " ">>)[2]

\* the step returns from the call on top with one truncated fragment
ReturnsTruncated ==
    /\ Len(frames') = Len(frames) - 1
    /\ Len(results') = Len(results) + 1
    /\ results'[Len(results')].truncated
    /\ results'[Len(results')].candidate = TopString

StripLabels(ts, string) ==
    IF ts = <<>> THEN string
    ELSE SubSeq(string, Len(Labels(ts)) + Len(<<"\n", "\n">>) + 1, Len(string))

\* the bodies of the returned fragments, in output order, end to end
FragmentBodies == Concat([k \in 1..Len(results) |-> StripLabels(titles, results[k].string)])

\* C18: when every returned fragment fits the budget (none was truncated),
\* the bodies of the fragments, the labels removed, concatenated in output
\* order are the body of the section.
C18_BodiesReconstructBody ==
    (pc = "done" /\ \A k \in 1..Len(results) : ~results[k].truncated)
        => FragmentBodies = text

\* what is kept: the characters of the bodies are characters of the section
\* body in their order, with nothing but delimiters left out, one for each
\* bisection
RECURSIVE IsSubsequence(_, _)
IsSubsequence(a, b) ==
    IF a = <<>> THEN TRUE
    ELSE IF b = <<>> THEN FALSE
    ELSE IF Head(a) = Head(b) THEN IsSubsequence(Tail(a), Tail(b))
    ELSE IsSubsequence(a, Tail(b))

BodiesKeepOrder ==
    (pc = "done" /\ \A k \in 1..Len(results) : ~results[k].truncated) =>
        /\ IsSubsequence(FragmentBodies, text)
        /\ Len(text) - Len(FragmentBodies) >= Len(results) - 1
        /\ Len(text) - Len(FragmentBodies) <= 2 * (Len(results) - 1)

\* the inputs of the scenario: a body of ScenarioBodyTokens tokens split
\* with max_tokens = ScenarioMaxTokens and the default max_recursion
Scenario ==
    /\ num_tokens(text) = ScenarioBodyTokens
    /\ max_tokens = ScenarioMaxTokens
    /\ max_recursion = DefaultMaxRecursion

NoneTruncated == \A k \in 1..Len(results) : ~results[k].truncated

LabelText(ts) == Concat([k \in 1..Len(ts) |-> ts[k] \o <<"\n", "\n">>])

C21_CleanTextIdempotent ==
    clean.pc = "twice" => clean.twice = clean.once

\* On a text that holds no character reference the second application
\* changes nothing: the result has no link, no run of whitespace and no
\* whitespace at its ends.
CleanTextIdempotentWithoutEntities ==
    (clean.pc = "twice" /\ DecodeEntities(clean.text) = clean.text)
        => clean.twice = clean.once

\* a text with a link whose cleaning was applied twice
CleanedLinkTwice ==
    /\ clean.pc = "twice"
    /\ clean.text = <<"a", "http://", "a">>
    /\ clean.twice = <<"a">>

(***************************************************************************)
(* Properties of chunk_text (SpecChunk).                                   *)
(***************************************************************************)
\* the characters of s that are not whitespace, in order
NonWhitespace(s) == SelectSeq(s, LAMBDA ch : ch \notin Whitespace)

\* C26: for max_chars > 0 chunk_text returns non-empty chunks of at most
\* max_chars characters, in the order of the text, and the characters of
\* the text that are not whitespace are, one for one and in order, those
\* of the chunks: a chunk is a slice less the whitespace at its two ends.
C26_ChunksCoverText ==
    chunk.pc = "returned" =>
        /\ \A k \in 1..Len(chunk.chunks) :
              /\ chunk.chunks[k] # <<>>
              /\ Len(chunk.chunks[k]) <= chunk.max_chars
              /\ \E i \in 0..(Len(chunk.text) - 1) :
                    /\ i % chunk.max_chars = 0
                    /\ chunk.chunks[k] = StripOf(ChunkSlice(chunk.text, i, chunk.max_chars), Whitespace)
        /\ NonWhitespace(Concat(chunk.chunks)) = NonWhitespace(chunk.text)
        /\ Len(Concat(chunk.chunks)) <= Len(chunk.text)

\* a returned call that dropped a slice of whitespace and stripped another
C26_Witness ==
    /\ chunk.pc = "returned"
    /\ chunk.text = <<"a", " ", " ", " ">>
    /\ chunk.max_chars = 2
    /\ chunk.chunks = << <<"a">> >>

(***************************************************************************)
(* Properties of run_pipeline (SpecPipe).                                  *)
(***************************************************************************)
\* C22: in the records of run_pipeline no two records have the same
\* (page_title, section, chunk_id), and within one section chunk_id is the
\* zero-based position of the chunk.
C22_TripleIsKey ==
    /\ \A i, j \in 1..Len(pipe.records) :
          (/\ pipe.records[i].page_title = pipe.records[j].page_title
           /\ pipe.records[i].section = pipe.records[j].section
           /\ pipe.records[i].chunk_id = pipe.records[j].chunk_id) => i = j
    /\ \A i \in 1..Len(pipe.records) :
          \/ pipe.records[i].chunk_id = 0
          \/ /\ i > 1
             /\ pipe.records[i - 1].page_title = pipe.records[i].page_title
             /\ pipe.records[i - 1].section = pipe.records[i].section
             /\ pipe.records[i - 1].chunk_id + 1 = pipe.records[i].chunk_id

\* The records of one section follow one another and are numbered from 0
\* in the order of the chunks.
ChunkIdCountsWithinSection ==
    \A i \in 1..Len(pipe.records) :
        \/ pipe.records[i].chunk_id = 0
        \/ /\ i > 1
           /\ pipe.records[i - 1].page_title = pipe.records[i].page_title
           /\ pipe.records[i - 1].section = pipe.records[i].section
           /\ pipe.records[i - 1].chunk_id + 1 = pipe.records[i].chunk_id

\* two sections of one page with the same heading text, one chunk each
TwoSectionsOneName ==
    /\ Len(pipe.records) = 2
    /\ pipe.records[1].page_title = pipe.records[2].page_title
    /\ pipe.records[1].section = pipe.records[2].section
    /\ pipe.records[1].chunk_id = 0
    /\ pipe.records[2].chunk_id = 0

\* the calls of client.embeddings.create so far are for different batches
NoBatchRequestedTwice ==
    \A i, j \in 1..Len(pipe.requests) : pipe.requests[i] = pipe.requests[j] => i = j

\* C24: when an embedding request fails generate_embeddings raises without
\* asking for that batch again, and run_pipeline writes no output file: the
\* file is as it was before the run.  A file is written only with an
\* embedding for every row.
C24_FailedEmbeddingWritesNothing ==
    /\ NoBatchRequestedTwice
    /\ (pipe.pc = "raised" /\ pipe.error = "embedding request failed") =>
          /\ pipe.csv = pipe.csv0
          /\ pipe.requests[Len(pipe.requests)] = pipe.start
    /\ pipe.csv # pipe.csv0 =>
          /\ pipe.pc = "done"
          /\ Len(pipe.embeddings) = Len(pipe.df)
          /\ pipe.csv = Some(serialize_embeddings(pipe.df, pipe.embeddings))

\* the second batch failed after the first was embedded, a file of an
\* earlier run in place
C24_Witness ==
    /\ pipe.pc = "raised"
    /\ pipe.error = "embedding request failed"
    /\ Len(pipe.requests) = 2
    /\ pipe.embeddings # <<>>
    /\ pipe.csv = Some(OldCsv)

(***************************************************************************)
(* Properties of the startup (SpecBoot).                                   *)
(***************************************************************************)
\* the dispatcher is polling
BotStarted == boot.pc = "polling"

\* C23: when the bot starts polling load() has returned on every
\* configured knowledge base, so every search is against a loaded
\* instance; once a load() has raised the bot never handles a message, and
\* a crashed startup stays crashed.
C23_LoadedBeforePolling ==
    /\ [](/\ BotStarted => \A i \in 1..Len(boot.topics) : boot.kb[boot.topics[i]] = "loaded"
          /\ \A s \in boot.searched : s.kb = "loaded"
          /\ boot.handled > 0 => BotStarted
          /\ boot.failed # {} => (boot.pc = "crashed" /\ boot.handled = 0))
    /\ [][boot.pc = "crashed" => boot'.pc = "crashed"]_vars

\* polling with two loaded bases and a question answered from one of them
C23_Witness ==
    /\ BotStarted
    /\ Len(boot.topics) = 2
    /\ boot.searched # {}

\* the second load() raised after the first had returned
SecondLoadRaised ==
    /\ boot.pc = "crashed"
    /\ boot.failed # {}
    /\ boot.bases # {}

(***************************************************************************)
(* Properties of load() over serialized embeddings (SpecParse).            *)
(***************************************************************************)
\* some cell of the file is not a JSON array of numbers
SomeCellNotJsonArray ==
    \E k \in 1..Len(parse.cells) : ~IsJsonArrayOfNumbers(parse.cells[k])

\* C25: when the serialized embedding of any record is not a valid JSON
\* array of numbers load() fails, no such record is in the committed
\* batch, and what was committed before is unchanged.
C25_BadEmbeddingFailsLoad ==
    (parse.pc # "load" /\ SomeCellNotJsonArray) =>
        /\ parse.pc = "raised"
        /\ parse.df = parse.df0
        /\ parse.embedding_matrix = parse.embedding_matrix0

\* A load() that raises leaves what was committed before; a committed
\* batch has one row per record, each from a cell that is a JSON array, a
\* bare JSON number, or a Python list or tuple display of numbers.
LoadCommitsParsedOrNothing ==
    /\ parse.pc = "raised" =>
          /\ parse.df = parse.df0
          /\ parse.embedding_matrix = parse.embedding_matrix0
    /\ parse.pc = "loaded" =>
          /\ Len(parse.df[1]) = Len(parse.cells)
          /\ \A k \in 1..Len(parse.cells) :
                \/ IsJsonArrayOfNumbers(parse.cells[k])
                \/ json_loads(parse.cells[k]).kind = "number"
                \/ literal_eval(parse.cells[k]).kind \in {"list", "tuple"}

\* a file whose only record is the tuple display (1, 0), committed
TupleCellCommitted ==
    /\ parse.pc = "loaded"
    /\ parse.cells = << <<"(", "1", ",", "0", ")">> >>
    /\ parse.df[1][1].embedding = <<1, 0>>

(***************************************************************************)
(* Properties of _prepare_question_for_session (SpecPrep).                 *)
(***************************************************************************)
\* the template's correct_option is an index of its options
ValidCorrectOption(t) == t.correct_option \in 0..(Len(t.options) - 1)

\* how many times x occurs in s
Occurrences(s, x) == Cardinality({ k \in 1..Len(s) : s[k] = x })

\* C27: the copy returned has the options of the template in some order,
\* its correct_option is the position the option at the template's
\* correct_option went to (for a template with a valid index), and the
\* cached template is as it was.
C27_ShuffleKeepsCorrectOption ==
    prep.pc = "returned" =>
        /\ Len(prep.question_copy.options) = Len(prep.template0.options)
        /\ \A x \in OptionTexts :
              Occurrences(prep.question_copy.options, x) = Occurrences(prep.template0.options, x)
        /\ ValidCorrectOption(prep.template0) =>
              /\ prep.question_copy.correct_option \in 0..(Len(prep.question_copy.options) - 1)
              /\ prep.indexed_options[prep.question_copy.correct_option + 1].original_index
                    = prep.template0.correct_option
              /\ prep.question_copy.options[prep.question_copy.correct_option + 1]
                    = prep.template0.options[prep.template0.correct_option + 1]
        /\ prep.template = prep.template0

\* a copy in which the correct option has moved between different texts
C27_Witness ==
    /\ prep.pc = "returned"
    /\ prep.template0.options = <<"A", "B", "A">>
    /\ prep.template0.correct_option = 1
    /\ prep.question_copy.options = <<"B", "A", "A">>
    /\ prep.question_copy.correct_option = 0

(***************************************************************************)
(* Properties of the quiz (SpecQuiz).                                      *)
(***************************************************************************)
\* C28: in every interleaving of quiz events a question index of a session
\* has at most one recorded answer, and the results shown have
\* correct_answers + incorrect_answers at most QUESTIONS_PER_SESSION.
C28_OneAnswerPerQuestion ==
    /\ \A k \in 0..(QuestionsPerSession - 1) : quiz.recorded[k] <= 1
    /\ \A r \in quiz.shown : r.correct + r.incorrect <= QuestionsPerSession

\* the results of a session shown with more answers than questions
MoreAnswersThanQuestions ==
    \E r \in quiz.shown : r.correct + r.incorrect > QuestionsPerSession

\* no handler is running and at least one has run
HandlersFinished == quiz.updates > 0 /\ \A i \in Handlers : quiz.h[i].pc = "idle"

\* C29: whenever the handlers have finished, normally or with an error,
\* and the quiz_state of the user has is_active = true, the questions of
\* the session are in _active_user_questions.
C29_ActiveQuizHasQuestions ==
    (HandlersFinished /\ quiz.db.row /\ quiz.db.is_active) => quiz.active # None

\* With enough questions in the cache an active quiz has its questions
\* whenever the handlers have finished.
ActiveQuizHasQuestionsWhenEnough ==
    (HandlersFinished /\ quiz.db.row /\ quiz.db.is_active /\ quiz.cache >= QuestionsPerSession)
        => quiz.active # None

(***************************************************************************)
(* Properties of TelegramBot (SpecBot).                                    *)
(***************************************************************************)
\* the mode is the talk mode or an available topic
ModeAvailable(mode) == mode = TALK_MODE \/ mode \in bot.available_topics

\* C30: every mode stored in user_modes, and default_mode, is the talk
\* mode or an available topic; so the mode a question is answered in never
\* leads to the branch of line 133, and AskService.answer is only called
\* with topics that have a knowledge base.
C30_ModesAreAvailable ==
    /\ ModeAvailable(bot.default_mode)
    /\ \A u \in BotUsers :
          /\ bot.user_modes[u] # NoMode => ModeAvailable(bot.user_modes[u])
          /\ bot.answering[u] # NoQuestion => ModeAvailable(bot.answering[u])
    /\ bot.asked \subseteq bot.bases

\* a configuration without the topic 2022: one user changed to 1980 and
\* was answered from its base, a change to 2022 was refused, and a
\* question of the other user is being answered in the default mode
C30_Witness ==
    /\ "2022" \notin bot.available_topics
    /\ bot.user_modes["u1"] = "1980"
    /\ "1980" \in bot.asked
    /\ bot.refused
    /\ bot.answering["u2"] = bot.default_mode
    /\ bot.default_mode = "x"

====
